---- MODULE Spec2Model ----
(***************************************************************************)
(* Model of the university question-answering pipeline:                    *)
(*   - the LangGraph workflow of UniversityLangGraphSystem                  *)
(*     (src/src/agents/langgraph_system.py), one run of process_query;     *)
(*   - the feedback loop of VannaFeedbackSystem (src/src/vanna/feedback.py)*)
(*     over the vector store of UniversityVannaGemini                      *)
(*     (src/src/vanna/setup.py).                                           *)
(* Python's None / Optional is modelled as a sequence of length 0 or 1,    *)
(* a dict as a TLA+ function over its keys.                                *)
(***************************************************************************)
EXTENDS Integers, Sequences, FiniteSets, TLC

VARIABLES
    pc,                  \* position of the run: "idle", a graph node, "END", "returned"
    state,               \* the AgentState threaded through the graph
    result,              \* <<>> until process_query returns, then <<record>>
    trace,               \* history: graph nodes executed in this run, in order
    calls,               \* history: collaborator invocations of this run, in order
    needs_database,      \* history: router's local needs_database ("unset","yes","no")
    failed,              \* history: nodes whose try block raised in this run
    sqlOutcome,          \* history: what run_sql returned ("none","rows","empty","null","raised")
    malformed,           \* history: the router's response held no recognised field prefix
    pending_corrections, \* VannaFeedbackSystem.pending_corrections: query_id -> entry
    logExists,           \* os.path.exists(feedback_file)
    logs,                \* content of feedback_log.json: sequence of entries
    store,               \* the Qdrant collection: point id -> payload
    nextId,              \* number of query ids handed out so far (uuid4 is fresh)
    clock,               \* datetime.now() as a logical time: it advances with every logged query
    fb,                  \* history: the last feedback-system call and its return value
    accepted,            \* history: query_id -> number of submit_feedback calls that returned True
    instance_ids,        \* history: the query ids log_query_execution returned on the current instance
    bulk,                \* history: the bulk_apply_corrections call made, its input and its count
    tr,                  \* history: the last training call on the vector store and what it returned
    rt,                  \* history: the last retrieval call and what it returned
    gs,                  \* the generate_sql call in progress: position, locals, return
    returned_ids,        \* history: text -> the calls that added it and the ids they returned
    th                   \* the concurrent submit_feedback calls: position, arguments, locals, return

wfVars == <<pc, state, result, trace, calls, needs_database, failed, sqlOutcome, malformed>>
fbVars == <<pending_corrections, logExists, logs, store, nextId, clock, fb, accepted, bulk,
           instance_ids>>
trVars == <<tr, returned_ids, rt, gs>>
vars == <<pc, state, result, trace, calls, needs_database, failed, sqlOutcome, malformed,
          pending_corrections, logExists, logs, store, nextId, clock, fb, accepted,
          bulk, instance_ids, tr, returned_ids, rt, gs, th>>

(***************************************************************************)
(* Bounds of the model.                                                    *)
(***************************************************************************)
MaxRouterLines == 2      \* lines in the router's completion response
MaxSuggestionLines == 5  \* lines in a suggestion completion response
MaxRows == 2             \* rows of a result table
MaxQueries == 2          \* query ids handed out by log_query_execution
MaxCorrections == 2      \* corrections in one bulk_apply_corrections call
MaxLimit == 2            \* limit given to get_queries_for_review
MaxRecords == 4          \* records of one kind that training puts into the collection
MaxAdds == 2             \* successful add_ddl / add_documentation calls per text

Min(a, b) == IF a <= b THEN a ELSE b

None == <<>>
Some(x) == <<x>>
EmptyDict == [k \in {} |-> TRUE]

(***************************************************************************)
(* Inputs.                                                                 *)
(***************************************************************************)
Questions == {"Berapa jumlah mahasiswa aktif?", "Bagaimana strategi meningkatkan IPK?"}

\* A line of the router response, as the list line.split(":") yields.
RouterLines ==
    { <<"Needs Database", " yes">>, <<"Needs Database", " YES ">>,
      <<"Needs Database", " no">>, <<" Needs Database", " yes">>,
      <<"Query Type", " data_query">>, <<"Query Type", " strategy_question">>,
      <<"Visualization Needed", " true">>, <<"Visualization Needed", " False">>,
      <<"Reasoning", " needs counts", " per faculty">>,
      <<"I cannot classify this question">> }

SeqsUpTo(S, n) == UNION { [1..k -> S] : k \in 0..n }

RouterResponses == SeqsUpTo(RouterLines, MaxRouterLines)

\* str.strip() and str.lower() on the field values that occur in RouterLines.
strip(s) ==
    CASE s = " yes" -> "yes"
      [] s = " YES " -> "YES"
      [] s = " no" -> "no"
      [] s = " data_query" -> "data_query"
      [] s = " strategy_question" -> "strategy_question"
      [] s = " true" -> "true"
      [] s = " False" -> "False"
      [] s = " needs counts" -> "needs counts"
      [] OTHER -> s

lower(s) ==
    CASE s = "YES" -> "yes"
      [] s = "False" -> "false"
      [] OTHER -> s

\* line.startswith(prefix + ":"): the text before the first colon is the prefix
\* and there is a colon.
startswith(line, prefix) == Len(line) >= 2 /\ line[1] = prefix

\* Columns of a result table: name and dtype.
NumCol(n) == [name |-> n, dtype |-> "number"]
ObjCol(n) == [name |-> n, dtype |-> "object"]
ColumnLists ==
    { <<NumCol("jumlah")>>,
      <<ObjCol("nama_fakultas"), NumCol("jumlah")>>,
      <<ObjCol("tahun"), NumCol("ipk"), NumCol("sks")>> }

DataFrame(r, cols) == [rows |-> r, columns |-> cols]
DataFrames == { DataFrame(r, c) : r \in 0..MaxRows, c \in ColumnLists }

\* DataFrame.empty: some axis has length 0.
empty(df) == df.rows = 0 \/ Len(df.columns) = 0

\* Mutant of ColumnNames: the names in reverse order.
ColumnNames_reversed(df) ==
    [i \in 1..Len(df.columns) |-> df.columns[Len(df.columns) + 1 - i].name]

\* list(df.columns)
ColumnNames(df) == [i \in 1..Len(df.columns) |-> df.columns[i].name]

SqlErrorSentinel == "-- Error generating SQL query"
SqlStrings == {"SELECT COUNT(*) FROM dwh.dim_mahasiswa", "SELECT 1;"}


(***************************************************************************)
(* process_query: the initial AgentState.                                  *)
(***************************************************************************)
initial_state(question) ==
    [ messages |-> <<>>, user_question |-> question, query_type |-> "",
      sql_query |-> "", sql_result |-> EmptyDict, data |-> None,
      insights |-> <<>>, suggestions |-> <<>>, strategy_response |-> "",
      visualization_needed |-> FALSE, current_agent |-> "",
      next_action |-> "", error |-> "" ]

AIMessage(agent, content) == [agent |-> agent, content |-> content]

(***************************************************************************)
(* router_agent: parse of the completion response, line by line.           *)
(***************************************************************************)
\* Mutant of RouterDefaults: an unrecognised response defaults to the database path.
RouterDefaultsDatabase ==
    [ needs_database |-> TRUE, query_type |-> "data_query",
      viz_needed |-> FALSE, reasoning |-> "" ]

RouterDefaults ==
    [ needs_database |-> FALSE, query_type |-> "strategy_question",
      viz_needed |-> FALSE, reasoning |-> "" ]

RouterParseLine(acc, line) ==
    IF startswith(line, "Needs Database")
    THEN [acc EXCEPT !.needs_database = (lower(strip(line[2])) = "yes")]
    ELSE IF startswith(line, "Query Type")
    THEN [acc EXCEPT !.query_type = strip(line[2])]
    ELSE IF startswith(line, "Visualization Needed")
    THEN [acc EXCEPT !.viz_needed = (lower(strip(line[2])) = "true")]
    ELSE IF startswith(line, "Reasoning")
    THEN [acc EXCEPT !.reasoning = strip(line[2])]
    ELSE acc

RECURSIVE RouterParseFrom(_, _, _)
RouterParseFrom(acc, lines, i) ==
    IF i > Len(lines) THEN acc
    ELSE RouterParseFrom(RouterParseLine(acc, lines[i]), lines, i + 1)

RouterParse(lines) == RouterParseFrom(RouterDefaults, lines, 1)

\* The response holds none of the field prefixes the parse recognises.
RouterPrefixes == {"Needs Database", "Query Type", "Visualization Needed", "Reasoning"}
Malformed(lines) ==
    \A i \in 1..Len(lines) : \A p \in RouterPrefixes : ~startswith(lines[i], p)

\* Mutant of router_agent: a failed provider call degrades to the default
\* classification instead of setting error.
router_agent_degrade(s, raised, response) ==
    LET p == IF raised THEN RouterDefaults ELSE RouterParse(response) IN
    [s EXCEPT !.query_type = p.query_type,
              !.visualization_needed = p.viz_needed,
              !.current_agent = "router",
              !.next_action = IF p.needs_database THEN "sql" ELSE "strategy",
              !.messages = Append(@, AIMessage("Router Agent",
                              <<IF p.needs_database THEN "database" ELSE "strategy">>))]

\* router_agent; raised: self.llm.invoke raised inside the try block.
router_agent(s, raised, response) ==
    IF raised
    THEN [s EXCEPT !.error = "Router error", !.next_action = "error"]
    ELSE LET p == RouterParse(response) IN
         [s EXCEPT !.query_type = p.query_type,
                   !.visualization_needed = p.viz_needed,
                   !.current_agent = "router",
                   !.next_action = IF p.needs_database THEN "sql" ELSE "strategy",
                   !.messages = Append(@, AIMessage("Router Agent",
                                   <<IF p.needs_database THEN "database" ELSE "strategy">>))]

(***************************************************************************)
(* sql_agent.  sql is what vanna.generate_sql returned, df what            *)
(* vanna.run_sql returned (None or a table); raisedAt names the call       *)
(* inside the try block that raised ("" when none did).                    *)
(***************************************************************************)
sql_agent(s, sql, df, raisedAt) ==
    LET s1 == IF raisedAt = "generate_sql" THEN s ELSE [s EXCEPT !.sql_query = sql]
        s2 == IF raisedAt # ""
              THEN [s1 EXCEPT !.error = "SQL Agent error", !.next_action = "error"]
              ELSE IF df # None /\ ~empty(df[1])
              THEN [s1 EXCEPT !.data = df,
                              !.sql_result = [success |-> TRUE,
                                              row_count |-> df[1].rows,
                                              columns |-> ColumnNames(df[1])],
                              !.next_action = "insights",
                              !.messages = Append(@, AIMessage("SQL Agent", <<>>))]
              ELSE [s1 EXCEPT !.sql_result = [success |-> FALSE,
                                              message |-> "No data returned"],
                              !.next_action = "error"]
    IN [s2 EXCEPT !.current_agent = "sql"]

(***************************************************************************)
(* strategy_agent.                                                         *)
(***************************************************************************)
StrategyResponses == {"1. Strategi utama ...", ""}

strategy_agent(s, raised, response) ==
    IF raised
    THEN [s EXCEPT !.error = "Strategy Agent error",
                   !.strategy_response = "Maaf, tidak dapat menghasilkan strategi saat ini.",
                   !.next_action = "error"]
    ELSE [s EXCEPT !.messages = Append(@, AIMessage("Strategy Agent", <<>>)),
                   !.strategy_response = response,
                   !.current_agent = "strategy",
                   !.next_action = "strategy_suggestions"]

(***************************************************************************)
(* insight_agent.  A response is its lines (split on newline) and its      *)
(* sentences (split on '.'), each sentence with the length of its strip.   *)
(***************************************************************************)
MarkedLines == {"(chart) Fakultas Teknik memiliki mahasiswa terbanyak", "- IPK rata-rata naik"}
InsightResponses ==
    { [ lines |-> <<"Berikut analisisnya:", "(chart) Fakultas Teknik memiliki mahasiswa terbanyak",
                    "", "- IPK rata-rata naik">>,
        sentences |-> << >> ],
      [ lines |-> <<"Jumlah mahasiswa meningkat. Ya. IPK stabil sepanjang tahun. ...">>,
        sentences |-> << [text |-> "Jumlah mahasiswa meningkat", len |-> 26],
                         [text |-> "Ya", len |-> 2],
                         [text |-> "IPK stabil sepanjang tahun", len |-> 26],
                         [text |-> "Kehadiran perlu diperhatikan", len |-> 28],
                         [text |-> "Pembayaran SPP tepat waktu", len |-> 26],
                         [text |-> "Dosen perlu pelatihan tambahan", len |-> 30] >> ],
      [ lines |-> <<"">>, sentences |-> << [text |-> "", len |-> 0] >> ] }

MinSentenceLen == 20
MaxFallbackInsights == 4

\* Mutant of Slice: the whole sequence, whatever n.
Slice_whole(seq, n) == seq

\* seq[:n]
Slice(seq, n) == SubSeq(seq, 1, IF Len(seq) < n THEN Len(seq) ELSE n)

InsightQualifies(line) == line # "" /\ line \in MarkedLines
LongSentence(sn) == sn.len > MinSentenceLen

ParseInsights(response) ==
    LET marked == SelectSeq(response.lines, InsightQualifies)
        long == Slice(SelectSeq(response.sentences, LongSentence), MaxFallbackInsights)
    IN IF marked # <<>> THEN marked
       ELSE [i \in 1..Len(long) |-> long[i].text]

insight_agent(s, raised, response) ==
    IF raised
    THEN [s EXCEPT !.error = "Insight Agent error",
                   !.insights = <<"Error menghasilkan insights">>,
                   !.next_action = "suggestions"]
    ELSE [s EXCEPT !.insights = ParseInsights(response),
                   !.current_agent = "insight",
                   !.next_action = IF s.visualization_needed THEN "visualization"
                                                             ELSE "suggestions",
                   !.messages = Append(@, AIMessage("Insight Agent", <<>>))]

(***************************************************************************)
(* suggestion_agent and strategy_suggestion_agent.                         *)
(***************************************************************************)
SuggestionLines == {"Bagaimana tren IPK per semester?", "Berikut saran:", ""}
SuggestionResponses == SeqsUpTo(SuggestionLines, MaxSuggestionLines)
MaxSuggestions == 4

\* line.strip() and '?' in line
IsQuestion(line) == line # "" /\ line = "Bagaimana tren IPK per semester?"

ParseSuggestions(response) == SelectSeq(response, IsQuestion)

suggestion_agent(s, raised, response) ==
    IF raised
    THEN [s EXCEPT !.error = "Suggestion Agent error",
                   !.suggestions = <<"Coba analisis data dari perspektif yang berbeda">>]
    ELSE [s EXCEPT !.suggestions = Slice(ParseSuggestions(response), MaxSuggestions),
                   !.current_agent = "suggestion",
                   !.next_action = "summarize",
                   !.messages = Append(@, AIMessage("Suggestion Agent", <<>>))]

strategy_suggestion_agent(s, raised, response) ==
    IF raised
    THEN [s EXCEPT !.error = "Strategy Suggestion Agent error",
                   !.suggestions = <<"Bagaimana mengukur efektivitas strategi ini?">>]
    ELSE [s EXCEPT !.suggestions = Slice(ParseSuggestions(response), MaxSuggestions),
                   !.current_agent = "strategy_suggestion",
                   !.next_action = "summarize",
                   !.messages = Append(@, AIMessage("Strategy Suggestion Agent", <<>>))]


(***************************************************************************)
(* visualization_agent: rule-based recommendations from the column dtypes. *)
(***************************************************************************)
TemporalKeywords == {"tahun", "semester"}

\* keyword in str(data.columns).lower(), for the column names of ColumnLists
HasTemporalKeyword(df) ==
    \E i \in 1..Len(df.columns) : lower(df.columns[i].name) \in TemporalKeywords

NumericCols(df) == { i \in 1..Len(df.columns) : df.columns[i].dtype = "number" }
CategoricalCols(df) == { i \in 1..Len(df.columns) : df.columns[i].dtype = "object" }

\* Mutant of viz_recommendations: one numeric column is enough for the scatter plot.
viz_recommendations_scatter_any(df) ==
    LET bar == IF Cardinality(NumericCols(df)) > 0 /\ Cardinality(CategoricalCols(df)) > 0
               THEN <<"Bar chart">> ELSE <<>>
        scatter == IF Cardinality(NumericCols(df)) > 0 THEN <<"Scatter plot">> ELSE <<>>
        line == IF HasTemporalKeyword(df) THEN <<"Line chart">> ELSE <<>>
        rules == bar \o scatter \o line
    IN IF Len(rules) = 0 THEN <<"Tabel data">> ELSE rules

viz_recommendations(df) ==
    LET bar == IF Cardinality(NumericCols(df)) > 0 /\ Cardinality(CategoricalCols(df)) > 0
               THEN <<"Bar chart">> ELSE <<>>
        scatter == IF Cardinality(NumericCols(df)) > 1 THEN <<"Scatter plot">> ELSE <<>>
        line == IF HasTemporalKeyword(df) THEN <<"Line chart">> ELSE <<>>
        rules == bar \o scatter \o line
    IN IF Len(rules) = 0 THEN <<"Tabel data">> ELSE rules

visualization_agent(s, raised) ==
    IF raised \/ s.data = None
    THEN [s EXCEPT !.error = "Visualization Agent error"]
    ELSE [s EXCEPT !.messages = Append(@, AIMessage("Visualization Agent",
                                                    viz_recommendations(s.data[1]))),
                   !.current_agent = "visualization",
                   !.next_action = "suggestions"]

(***************************************************************************)
(* summarizer_agent.                                                       *)
(***************************************************************************)
summarizer_agent(s, raised) ==
    IF raised
    THEN [s EXCEPT !.error = "Summarizer error"]
    ELSE [s EXCEPT !.messages = Append(@, AIMessage("Summarizer",
                        <<IF s.strategy_response # "" THEN "Analisis Strategi Selesai"
                                                      ELSE "Analisis Selesai">>)),
                   !.current_agent = "summarizer"]

(***************************************************************************)
(* Decision functions and the edges of _build_graph.                       *)
(***************************************************************************)
\* Mutant of route_decision: the default "sql" is returned whatever next_action holds.
route_decision_default_sql(s) == IF s.error # "" THEN "error" ELSE "sql"

route_decision(s) == IF s.error # "" THEN "error" ELSE s.next_action

\* Mutant of post_sql_decision: only error is looked at, not sql_result.success.
post_sql_decision_error_only(s) == IF s.error # "" THEN "error" ELSE "insights"

post_sql_decision(s) ==
    IF s.error # "" \/ ~s.sql_result.success THEN "error" ELSE "insights"

\* Mutant of post_insight_decision: the visualization branch is always taken.
post_insight_decision_always(s) == "visualization"

post_insight_decision(s) ==
    IF s.visualization_needed THEN "visualization" ELSE "suggestions"

RouterBranches == [sql |-> "sql_agent", strategy |-> "strategy_agent", error |-> "END"]
PostSqlBranches == [insights |-> "insight_agent", error |-> "END"]
PostInsightBranches ==
    [visualization |-> "visualization_agent", suggestions |-> "suggestion_agent"]

Nodes == { "router", "sql_agent", "strategy_agent", "insight_agent", "suggestion_agent",
           "strategy_suggestion_agent", "visualization_agent", "summarizer" }

\* Mutant of next_node: suggestion_agent is followed by strategy_suggestion_agent.
next_node_detour(node, s) ==
    CASE node = "router" -> RouterBranches[route_decision(s)]
      [] node = "sql_agent" -> PostSqlBranches[post_sql_decision(s)]
      [] node = "strategy_agent" -> "strategy_suggestion_agent"
      [] node = "insight_agent" -> PostInsightBranches[post_insight_decision(s)]
      [] node = "visualization_agent" -> "suggestion_agent"
      [] node = "suggestion_agent" -> "strategy_suggestion_agent"
      [] node = "strategy_suggestion_agent" -> "summarizer"
      [] node = "summarizer" -> "END"

\* The node that runs after node, given the state node returned.
next_node(node, s) ==
    CASE node = "router" -> RouterBranches[route_decision(s)]
      [] node = "sql_agent" -> PostSqlBranches[post_sql_decision(s)]
      [] node = "strategy_agent" -> "strategy_suggestion_agent"
      [] node = "insight_agent" -> PostInsightBranches[post_insight_decision(s)]
      [] node = "visualization_agent" -> "suggestion_agent"
      [] node = "suggestion_agent" -> "summarizer"
      [] node = "strategy_suggestion_agent" -> "summarizer"
      [] node = "summarizer" -> "END"

(***************************************************************************)
(* process_query: the record it returns.                                   *)
(***************************************************************************)
normal_return(s) ==
    [ success |-> (s.error = ""), question |-> s.user_question,
      query_type |-> s.query_type, sql_query |-> s.sql_query,
      sql_result |-> s.sql_result, data |-> s.data, insights |-> s.insights,
      suggestions |-> s.suggestions, strategy_response |-> s.strategy_response,
      messages |-> s.messages, error |-> s.error ]

except_return(question) ==
    [ success |-> FALSE, error |-> "Graph execution error", question |-> question,
      sql_query |-> "", sql_result |-> EmptyDict, data |-> None, insights |-> <<>>,
      suggestions |-> <<>>, strategy_response |-> "", messages |-> <<>> ]

(***************************************************************************)
(* Actions of one workflow run.                                            *)
(***************************************************************************)
\* What a node execution records in the history variables.
Executed(node, raised, llm) ==
    /\ trace' = Append(trace, node)
    /\ failed' = IF raised THEN failed \cup {node} ELSE failed
    /\ calls' = IF llm THEN Append(calls, "llm.invoke") ELSE calls

process_query(question) ==
    /\ pc = "idle"
    /\ state' = initial_state(question)
    /\ pc' = "router"
    /\ UNCHANGED <<result, trace, calls, needs_database, failed, sqlOutcome, malformed>>
    /\ UNCHANGED <<fbVars, trVars, th>>

run_router ==
    /\ pc = "router"
    /\ \E raised \in BOOLEAN, response \in RouterResponses :
         /\ raised => response = <<>>
         /\ LET s == router_agent(state, raised, response) IN
              /\ state' = s
              /\ pc' = next_node("router", s)
         /\ needs_database' = IF raised THEN "unset"
                              ELSE IF RouterParse(response).needs_database THEN "yes"
                              ELSE "no"
         /\ malformed' = (~raised /\ Malformed(response))
         /\ Executed("router", raised, TRUE)
    /\ UNCHANGED <<result, sqlOutcome>>
    /\ UNCHANGED <<fbVars, trVars, th>>

run_sql_agent ==
    /\ pc = "sql_agent"
    /\ \E sql \in SqlStrings \cup {SqlErrorSentinel},
          df \in {None} \cup { Some(d) : d \in DataFrames },
          raisedAt \in {"", "generate_sql", "run_sql"} :
         \* run_sql returns None for the sentinel: a comment is no query
         /\ sql = SqlErrorSentinel => df = None
         /\ raisedAt # "" => df = None
         /\ raisedAt = "generate_sql" => sql = SqlErrorSentinel
         /\ LET s == sql_agent(state, sql, df, raisedAt) IN
              /\ state' = s
              /\ pc' = next_node("sql_agent", s)
         /\ calls' = calls \o <<"vanna.generate_sql">>
                           \o (IF raisedAt = "generate_sql" THEN <<>> ELSE <<"vanna.run_sql">>)
         /\ sqlOutcome' = IF raisedAt # "" THEN "raised"
                          ELSE IF df = None THEN "null"
                          ELSE IF empty(df[1]) THEN "empty" ELSE "rows"
         /\ trace' = Append(trace, "sql_agent")
         /\ failed' = IF raisedAt # "" THEN failed \cup {"sql_agent"} ELSE failed
    /\ UNCHANGED <<result, needs_database, malformed>>
    /\ UNCHANGED <<fbVars, trVars, th>>

run_strategy_agent ==
    /\ pc = "strategy_agent"
    /\ \E raised \in BOOLEAN, response \in StrategyResponses :
         /\ raised => response = ""
         /\ LET s == strategy_agent(state, raised, response) IN
              /\ state' = s
              /\ pc' = next_node("strategy_agent", s)
         /\ Executed("strategy_agent", raised, TRUE)
    /\ UNCHANGED <<result, needs_database, sqlOutcome, malformed>>
    /\ UNCHANGED <<fbVars, trVars, th>>

run_insight_agent ==
    /\ pc = "insight_agent"
    /\ \E raised \in BOOLEAN, response \in InsightResponses :
         /\ raised => response.lines = <<"">>
         /\ LET s == insight_agent(state, raised, response) IN
              /\ state' = s
              /\ pc' = next_node("insight_agent", s)
         /\ Executed("insight_agent", raised, TRUE)
    /\ UNCHANGED <<result, needs_database, sqlOutcome, malformed>>
    /\ UNCHANGED <<fbVars, trVars, th>>

run_visualization_agent ==
    /\ pc = "visualization_agent"
    /\ \E raised \in BOOLEAN :
         /\ LET s == visualization_agent(state, raised) IN
              /\ state' = s
              /\ pc' = next_node("visualization_agent", s)
         /\ Executed("visualization_agent", raised \/ state.data = None, FALSE)
    /\ UNCHANGED <<result, needs_database, sqlOutcome, malformed>>
    /\ UNCHANGED <<fbVars, trVars, th>>

run_suggestion_agent ==
    /\ pc = "suggestion_agent"
    /\ \E raised \in BOOLEAN, response \in SuggestionResponses :
         /\ raised => response = <<>>
         /\ LET s == suggestion_agent(state, raised, response) IN
              /\ state' = s
              /\ pc' = next_node("suggestion_agent", s)
         /\ Executed("suggestion_agent", raised, TRUE)
    /\ UNCHANGED <<result, needs_database, sqlOutcome, malformed>>
    /\ UNCHANGED <<fbVars, trVars, th>>

run_strategy_suggestion_agent ==
    /\ pc = "strategy_suggestion_agent"
    /\ \E raised \in BOOLEAN, response \in SuggestionResponses :
         /\ raised => response = <<>>
         /\ LET s == strategy_suggestion_agent(state, raised, response) IN
              /\ state' = s
              /\ pc' = next_node("strategy_suggestion_agent", s)
         /\ Executed("strategy_suggestion_agent", raised, TRUE)
    /\ UNCHANGED <<result, needs_database, sqlOutcome, malformed>>
    /\ UNCHANGED <<fbVars, trVars, th>>

run_summarizer ==
    /\ pc = "summarizer"
    /\ \E raised \in BOOLEAN :
         /\ LET s == summarizer_agent(state, raised) IN
              /\ state' = s
              /\ pc' = next_node("summarizer", s)
         /\ Executed("summarizer", raised, FALSE)
    /\ UNCHANGED <<result, needs_database, sqlOutcome, malformed>>
    /\ UNCHANGED <<fbVars, trVars, th>>

\* graph.invoke returned final_state: the normal return of process_query.
process_query_return ==
    /\ pc = "END"
    /\ result' = Some(normal_return(state))
    /\ pc' = "returned"
    /\ UNCHANGED <<state, trace, calls, needs_database, failed, sqlOutcome, malformed>>
    /\ UNCHANGED <<fbVars, trVars, th>>

\* graph.invoke raised (an exception no node caught): the except branch.
process_query_except ==
    /\ pc \in Nodes
    /\ result' = Some(except_return(state.user_question))
    /\ pc' = "returned"
    /\ failed' = failed \cup {"graph"}
    /\ UNCHANGED <<state, trace, calls, needs_database, sqlOutcome, malformed>>
    /\ UNCHANGED <<fbVars, trVars, th>>

(***************************************************************************)
(* The vector store (setup.py).  A point id is the md5 of the content, a   *)
(* function of the content alone; distinct contents get distinct ids.      *)
(***************************************************************************)
\* Mutant of md5: an id that is new on every add (it grows with the collection).
md5_fresh(content) == <<"md5", content, Cardinality(DOMAIN store)>>

md5(content) == <<"md5", content>>

\* A str is modelled as the sequence of the fragments it is built from: the
\* f-string of add_question_sql has four, a ddl or documentation text one.
Text(s) == <<s>>

QuestionSqlContent(question, sql) == <<"Question: ", question, "\nSQL: ", sql>>

\* Mutant of upsert: a write to an id already present is stored as another point.
upsert_insert(st, id, payload) ==
    LET key == IF id \in DOMAIN st THEN <<"copy", id[2]>> ELSE id
    IN [k \in DOMAIN st \cup {key} |-> IF k = key THEN payload ELSE st[k]]

\* qdrant_client.upsert: replace-by-id.
upsert(st, id, payload) ==
    [k \in DOMAIN st \cup {id} |-> IF k = id THEN payload ELSE st[k]]

\* add_question_sql: the id it returns and the store it leaves.  embedOk: the
\* embedding provider answered (generate_embedding returned a vector);
\* upsertOk: the store accepted the write.
add_question_sql(st, question, sql, embedOk, upsertOk) ==
    LET content == QuestionSqlContent(question, sql)
        doc_id == md5(content)
    IN IF ~embedOk THEN [id |-> <<"Failed to generate embedding">>, store |-> st]
       ELSE IF ~upsertOk THEN [id |-> <<"Error">>, store |-> st]
       ELSE [id |-> doc_id,
             store |-> upsert(st, doc_id, [question |-> question, sql |-> sql,
                                           type |-> "question_sql",
                                           content |-> content])]

\* Texts given to add_ddl and add_documentation (the same text may be given
\* to both).
TrainingTexts ==
    { "CREATE TABLE dwh.dim_mahasiswa (mahasiswa_key INT, nim VARCHAR)",
      "dim_mahasiswa: satu baris per mahasiswa" }

\* What the embedding provider and the store do during one add call.
AddOutcomes ==
    { o \in [embedOk : BOOLEAN, upsertOk : BOOLEAN] : ~o.embedOk => o.upsertOk }

add_ddl(st, ddl, embedOk, upsertOk) ==
    LET doc_id == md5(Text(ddl))
    IN IF ~embedOk THEN [id |-> <<"Failed to generate embedding">>, store |-> st]
       ELSE IF ~upsertOk THEN [id |-> <<"Error">>, store |-> st]
       ELSE [id |-> doc_id,
             store |-> upsert(st, doc_id, [ddl |-> ddl, type |-> "ddl", content |-> Text(ddl)])]

add_documentation(st, documentation, embedOk, upsertOk) ==
    LET doc_id == md5(Text(documentation))
    IN IF ~embedOk THEN [id |-> <<"Failed to generate embedding">>, store |-> st]
       ELSE IF ~upsertOk THEN [id |-> <<"Error">>, store |-> st]
       ELSE [id |-> doc_id,
             store |-> upsert(st, doc_id, [documentation |-> documentation,
                                           type |-> "documentation",
                                           content |-> Text(documentation)])]

\* qdrant_client.delete(points_selector=[id]): the point is gone afterwards;
\* deleting an id the collection does not hold is not an error.
delete(st, id) == [k \in DOMAIN st \ {id} |-> st[k]]

\* remove_training_data; deleteOk: the store answered (delete did not raise).
remove_training_data(st, id, deleteOk) ==
    IF deleteOk THEN [ret |-> TRUE, store |-> delete(st, id)]
    ELSE [ret |-> FALSE, store |-> st]

(***************************************************************************)
(* Retrieval (setup.py).  The similarity order of the points of one kind   *)
(* is given by the store: ranking is any order of them, best first.        *)
(***************************************************************************)
DdlLimit == 3
DocumentationLimit == 2
QuestionSqlLimit == 3

KindIds(st, kind) == { id \in DOMAIN st : st[id].type = kind }

Rankings(ids) ==
    { r \in [1..Cardinality(ids) -> ids] :
        \A i, j \in 1..Cardinality(ids) : r[i] = r[j] => i = j }

\* Mutant of search: the limit is ignored.
search_all(st, kind, limit, ranking) == ranking

\* qdrant_client.search with a filter on type and a limit: the best limit
\* points of that kind.
search(st, kind, limit, ranking) == Slice(ranking, limit)

\* The payload field of the hits that carry it.
PayloadField(st, hits, field) ==
    LET Has(id) == field \in DOMAIN st[id]
        kept == SelectSeq(hits, Has)
    IN [i \in 1..Len(kept) |-> st[kept[i]][field]]

\* Mutant of get_related_ddl: the search is made also with an empty embedding.
get_related_ddl_no_guard(st, embedOk, searchOk, ranking) ==
    IF ~searchOk THEN <<>>
    ELSE PayloadField(st, search(st, "ddl", DdlLimit, ranking), "ddl")

\* embedOk: generate_embedding(question) returned a vector; searchOk: the
\* search call did not raise.
get_related_ddl(st, embedOk, searchOk, ranking) ==
    IF ~embedOk \/ ~searchOk THEN <<>>
    ELSE PayloadField(st, search(st, "ddl", DdlLimit, ranking), "ddl")

get_related_documentation(st, embedOk, searchOk, ranking) ==
    IF ~embedOk \/ ~searchOk THEN <<>>
    ELSE PayloadField(st, search(st, "documentation", DocumentationLimit, ranking),
                      "documentation")

\* Mutant of get_similar_question_sql: only the best hit is returned.
get_similar_question_sql_best(st, embedOk, searchOk, ranking) ==
    IF ~embedOk \/ ~searchOk THEN <<>>
    ELSE PayloadField(st, search(st, "question_sql", 1, ranking), "content")

get_similar_question_sql(st, embedOk, searchOk, ranking) ==
    IF ~embedOk \/ ~searchOk THEN <<>>
    ELSE PayloadField(st, search(st, "question_sql", QuestionSqlLimit, ranking), "content")

(***************************************************************************)
(* generate_sql (setup.py).  A text the completion provider returns is a   *)
(* sequence of fragments: fences, white space and the rest.                *)
(***************************************************************************)
Whitespace == {" ", "\n"}

RECURSIVE lstrip(_)
lstrip(text) ==
    IF text # <<>> /\ text[1] \in Whitespace THEN lstrip(Tail(text)) ELSE text

RECURSIVE rstrip(_)
rstrip(text) ==
    IF text # <<>> /\ text[Len(text)] \in Whitespace
    THEN rstrip(SubSeq(text, 1, Len(text) - 1)) ELSE text

\* str.strip() on a text
strip_text(text) == rstrip(lstrip(text))

\* The markdown fence markers: three backquotes, with and without "sql".
Fence == "[fence]"
FenceSql == "[fence]sql"

ResponseTexts ==
    { <<"SELECT COUNT(*) FROM dwh.dim_mahasiswa">>,
      <<" ", "SELECT 1;", "\n">>,
      <<FenceSql, "\n", "SELECT 1;", "\n", Fence>>,
      <<FenceSql, "\n", "SELECT 1;">>,
      <<Fence, "\n", "SELECT 1;", "\n", Fence, "\n">>,
      <<Fence, "SELECT 1;">>,
      <<>> }

\* What model.generate_content(prompt) / response.text yields: None when
\* either raises, else the text.
Completions == {None} \cup { Some(t) : t \in ResponseTexts }

\* The markdown clean-up of the response text.
clean_sql(text) ==
    LET sql == strip_text(text)
        n == Len(sql)
        cut == IF n > 0 /\ sql[1] \in {FenceSql, Fence}
               THEN IF sql[n] = Fence THEN SubSeq(sql, 2, n - 1) ELSE Tail(sql)
               ELSE sql
    IN strip_text(cut)

\* context_parts, each part a text
context_parts(related_ddl, related_docs, similar_questions) ==
    (IF related_ddl # <<>>
     THEN <<Text("Relevant database schema:")>> \o [i \in 1..Len(related_ddl) |-> Text(related_ddl[i])]
     ELSE <<>>)
    \o (IF related_docs # <<>>
        THEN <<Text("\nRelevant documentation:")>>
             \o [i \in 1..Len(related_docs) |-> Text(related_docs[i])]
        ELSE <<>>)
    \o (IF similar_questions # <<>>
        THEN <<Text("\nSimilar examples:")>> \o similar_questions
        ELSE <<>>)

prompt(question, context) == [context |-> context, question |-> question]

\* Mutant of generate_sql_except: the handler lets the exception through.
generate_sql_except_reraise == [raised |-> TRUE, value |-> <<>>]

\* except Exception: return "-- Error generating SQL query"
generate_sql_except == [raised |-> FALSE, value |-> Text(SqlErrorSentinel)]

\* generate_sql from the retrieved context on: the prompt is given to the
\* provider; completion is what the provider does with it.
generate_sql(question, related_ddl, related_docs, similar_questions, completion) ==
    LET p == prompt(question, context_parts(related_ddl, related_docs, similar_questions))
    IN IF completion = None THEN generate_sql_except
       ELSE [raised |-> FALSE, value |-> clean_sql(completion[1])]

gs_idle == [pc |-> "idle", question |-> "", related_ddl |-> <<>>, related_docs |-> <<>>,
            similar_questions |-> <<>>, completion |-> None, raised |-> FALSE, ret |-> None,
            \* history: the retrieval sub-steps whose embedding or search failed
            retrieval_failed |-> {}]

RetrievalFailed(o, step) == IF o.embedOk /\ o.searchOk THEN {} ELSE {step}

\* The call returned a point id, not one of its failure strings.
ReturnedId(ret) == ret \notin {<<"Failed to generate embedding">>, <<"Error">>}

(***************************************************************************)
(* The feedback system (feedback.py).                                      *)
(***************************************************************************)
FbSql == "SELECT COUNT(*) FROM dwh.dim_mahasiswa"
ResultFrames == {None, Some(DataFrame(MaxRows, <<NumCol("jumlah")>>))}
CorrectedSqls == {None, Some(""), Some("SELECT 1;")}
QueryIds == 0..MaxQueries     \* 0 is an id log_query_execution never returned

\* len(result_data) if result_data is not None else 0
result_count(result_data) == IF result_data = None THEN 0 ELSE result_data[1].rows

log_entry(query_id, now, question, generated_sql, execution_success, result_data) ==
    [ query_id |-> query_id, timestamp |-> now, question |-> question,
      generated_sql |-> generated_sql, execution_success |-> execution_success,
      result_count |-> result_count(result_data), feedback_received |-> FALSE,
      feedback_rating |-> None, corrected_sql |-> None, feedback_notes |-> None ]

\* dict.update / dict[key] = value
SetKey(d, key, value) == [k \in DOMAIN d \cup {key} |-> IF k = key THEN value ELSE d[k]]

\* Mutant of append_to_feedback_log: nothing is written when the file is missing.
append_to_feedback_log_if_exists(exists, content, entry) ==
    IF exists THEN Append(content, entry) ELSE content

\* _append_to_feedback_log: the file content it writes.
append_to_feedback_log(exists, content, entry) ==
    Append(IF exists THEN content ELSE <<>>, entry)

\* The positions of the feedback file whose entry carries query_id q.
LogPositions(content, q) == { i \in 1..Len(content) : content[i].query_id = q }

\* Mutant of update_feedback_log: the rewritten entry is moved to the end of the file.
update_feedback_log_move_last(exists, content, entry) ==
    IF ~exists \/ LogPositions(content, entry.query_id) = {} THEN content
    ELSE LET p == CHOOSE i \in LogPositions(content, entry.query_id) :
                      \A k \in LogPositions(content, entry.query_id) : i <= k
         IN Append(SubSeq(content, 1, p - 1) \o SubSeq(content, p + 1, Len(content)), entry)

\* _update_feedback_log: replace the first entry with the same query_id.
RECURSIVE ReplaceFirst(_, _, _)
ReplaceFirst(content, entry, i) ==
    IF i > Len(content) THEN content
    ELSE IF content[i].query_id = entry.query_id
    THEN [content EXCEPT ![i] = entry]
    ELSE ReplaceFirst(content, entry, i + 1)

update_feedback_log(exists, content, entry) ==
    IF ~exists THEN content ELSE ReplaceFirst(content, entry, 1)

\* submit_feedback lines 62-68: the feedback fields written into the entry.
\* Mutant of feedback_update: feedback_received is left as it was.
feedback_update_no_flag(entry, is_correct, corrected_sql, feedback_notes) ==
    SetKey(
      [entry EXCEPT !.feedback_rating = Some(IF is_correct THEN "correct" ELSE "incorrect"),
                    !.corrected_sql = corrected_sql,
                    !.feedback_notes = feedback_notes],
      "feedback_timestamp", "isoformat")

\* The value of feedback_timestamp is read by no operation and is kept abstract.
feedback_update(entry, is_correct, corrected_sql, feedback_notes) ==
    SetKey(
      [entry EXCEPT !.feedback_received = TRUE,
                    !.feedback_rating = Some(IF is_correct THEN "correct" ELSE "incorrect"),
                    !.corrected_sql = corrected_sql,
                    !.feedback_notes = feedback_notes],
      "feedback_timestamp", "isoformat")

\* Mutant of remove_pending: the whole index is emptied.
remove_pending_all(p, query_id) == EmptyDict

\* Mutant of remove_pending: the entry stays in pending.
remove_pending_keep(p, query_id) == p

\* del self.pending_corrections[query_id]
remove_pending(p, query_id) == [k \in DOMAIN p \ {query_id} |-> p[k]]

\* Mutant of Truthy: only None counts as "no correction".
Truthy_not_none(opt) == opt # None

\* Python truthiness of Optional[str]
Truthy(opt) == opt # None /\ opt[1] # ""

\* get_feedback_stats over the feedback file.
IsCorrect(l) == l.feedback_rating = Some("correct")
IsIncorrect(l) == l.feedback_rating = Some("incorrect")
NoFeedback(l) == ~l.feedback_received

get_feedback_stats ==
    IF ~logExists
    THEN [total |-> 0, correct |-> 0, incorrect |-> 0, no_feedback |-> 0]
    ELSE LET total == Len(logs)
             correct == Len(SelectSeq(logs, IsCorrect))
             incorrect == Len(SelectSeq(logs, IsIncorrect))
             feedback_total == correct + incorrect
         IN [ total |-> total, correct |-> correct, incorrect |-> incorrect,
              no_feedback |-> Len(SelectSeq(logs, NoFeedback)),
              \* rates in percent, as exact fractions <<numerator, denominator>>
              success_rate |-> IF total > 0 /\ feedback_total > 0
                               THEN <<correct * 100, feedback_total>> ELSE <<0, 1>>,
              correction_rate |-> IF total > 0 /\ feedback_total > 0
                                  THEN <<incorrect * 100, feedback_total>> ELSE <<0, 1>> ]

\* Mutant of sort_newest_first: the entries stay in file order.
sort_file_order(entries) == entries

\* list.sort(key=timestamp, reverse=True): a stable sort, entries with equal
\* timestamps keep their order.  One entry is inserted behind the entries
\* that are not older than it.
InsertNewestFirst(sorted, x) ==
    LET k == Cardinality({ i \in 1..Len(sorted) : sorted[i].timestamp >= x.timestamp })
    IN SubSeq(sorted, 1, k) \o <<x>> \o SubSeq(sorted, k + 1, Len(sorted))

RECURSIVE SortFrom(_, _, _)
SortFrom(entries, i, sorted) ==
    IF i > Len(entries) THEN sorted
    ELSE SortFrom(entries, i + 1, InsertNewestFirst(sorted, entries[i]))

sort_newest_first(entries) == SortFrom(entries, 1, <<>>)

\* get_queries_for_review over the feedback file.
get_queries_for_review(limit) ==
    IF ~logExists THEN <<>>
    ELSE LET need_feedback == sort_newest_first(SelectSeq(logs, NoFeedback))
         IN Slice(need_feedback, limit)

Accepted(q) == IF q \in DOMAIN accepted THEN accepted[q] ELSE 0

\* track_query_for_feedback -> log_query_execution
log_query_execution(question, generated_sql, result_df) ==
    /\ nextId < MaxQueries
    /\ LET query_id == nextId + 1
           execution_success == result_df # None /\ ~empty(result_df[1])
           entry == log_entry(query_id, clock + 1, question, generated_sql,
                              execution_success, result_df)
       IN /\ pending_corrections' = SetKey(pending_corrections, query_id, entry)
          /\ logs' = append_to_feedback_log(logExists, logs, entry)
          /\ logExists' = TRUE
          /\ nextId' = query_id
          /\ instance_ids' = instance_ids \cup {query_id}
          /\ fb' = [op |-> "log", query_id |-> query_id, ret |-> TRUE,
                   is_correct |-> FALSE, corrected_sql |-> None]
    /\ clock' = clock + 1
    /\ UNCHANGED <<store, accepted, bulk>>
    /\ UNCHANGED <<wfVars, trVars, th>>

System ==
    [pending |-> pending_corrections, logExists |-> logExists, logs |-> logs, store |-> store]

\* submit_feedback as a function of the feedback system's state sys (pending,
\* feedback file, vector store): what it returns and the state it leaves.
submit_feedback_result(sys, query_id, is_correct, corrected_sql, feedback_notes, embedOk, upsertOk) ==
    IF query_id \notin DOMAIN sys.pending
    THEN [ret |-> FALSE, sys |-> sys]
    ELSE LET updated == feedback_update(sys.pending[query_id], is_correct,
                                        corrected_sql, feedback_notes)
             \* _add_positive_training_data / _handle_correction / _handle_negative_feedback
             added == IF is_correct
                      THEN add_question_sql(sys.store, updated.question,
                                            updated.generated_sql, embedOk, upsertOk)
                      ELSE IF Truthy(corrected_sql)
                      THEN add_question_sql(sys.store, updated.question, corrected_sql[1],
                                            embedOk, upsertOk)
                      ELSE [id |-> <<>>, store |-> sys.store]
             query_data == IF is_correct THEN SetKey(updated, "training_id", added.id)
                           ELSE IF Truthy(corrected_sql)
                           THEN SetKey(updated, "corrected_training_id", added.id)
                           ELSE updated
         IN [ret |-> TRUE,
             sys |-> [pending |-> remove_pending(sys.pending, query_id),
                      logExists |-> sys.logExists,
                      logs |-> update_feedback_log(sys.logExists, sys.logs, query_data),
                      store |-> added.store]]

submit_feedback(query_id, is_correct, corrected_sql, feedback_notes, embedOk, upsertOk) ==
    LET r == submit_feedback_result(System, query_id, is_correct, corrected_sql,
                                    feedback_notes, embedOk, upsertOk)
    IN /\ pending_corrections' = r.sys.pending
       /\ logs' = r.sys.logs
       /\ store' = r.sys.store
       /\ fb' = [op |-> "submit", query_id |-> query_id, ret |-> r.ret,
                 is_correct |-> is_correct, corrected_sql |-> corrected_sql]
       /\ accepted' = IF r.ret THEN SetKey(accepted, query_id, Accepted(query_id) + 1)
                      ELSE accepted
       /\ UNCHANGED <<logExists, nextId, clock, bulk, instance_ids>>
       /\ UNCHANGED <<wfVars, trVars, th>>

\* bulk_apply_corrections.  A correction is the dict the caller passes
\* (query_id, is_correct, corrected_sql; notes defaults to "") together with
\* what the embedding provider does when that correction's store add is reached.
RECURSIVE bulk_apply_from(_, _, _, _)
bulk_apply_from(sys, corrections, i, applied_count) ==
    IF i > Len(corrections) THEN [count |-> applied_count, sys |-> sys]
    ELSE LET correction == corrections[i]
             r == submit_feedback_result(sys, correction.query_id, correction.is_correct,
                                         correction.corrected_sql, Some(""),
                                         correction.embedOk, TRUE)
         IN bulk_apply_from(r.sys, corrections, i + 1,
                            IF r.ret THEN applied_count + 1 ELSE applied_count)

bulk_apply_corrections(sys, corrections) == bulk_apply_from(sys, corrections, 1, 0)

(***************************************************************************)
(* submit_feedback called concurrently on one VannaFeedbackSystem.  The    *)
(* code takes no lock; a call is a sequence of steps and the steps of two  *)
(* calls interleave.  query_data is a reference to the entry object held   *)
(* in pending_corrections: a mutation through one reference is seen        *)
(* through every other.                                                    *)
(***************************************************************************)
\* The two calls in flight.
Callers == {"A", "B"}

th_idle == [pc |-> "idle", query_id |-> 0, is_correct |-> FALSE, corrected_sql |-> None,
            query_data |-> None, logs_read |-> <<>>, ret |-> None, raised |-> FALSE,
            upserted |-> FALSE, stale_write |-> FALSE]

\* The calls that hold a reference to the entry object of query_id.
Holders(query_id) ==
    { u \in Callers : th[u].query_data # None /\ th[u].query_id = query_id }

\* An in-place change of the entry object of caller t, after which t is at
\* position pos: the object is the one in pending (while it is there) and the
\* one every holder refers to.
mutate_entry(t, new, pos) ==
    LET q == th[t].query_id IN
    /\ pending_corrections' = IF q \in DOMAIN pending_corrections
                              THEN SetKey(pending_corrections, q, new)
                              ELSE pending_corrections
    /\ th' = [u \in Callers |->
                IF u = t THEN [th[u] EXCEPT !.query_data = Some(new), !.pc = pos]
                ELSE IF u \in Holders(q) THEN [th[u] EXCEPT !.query_data = Some(new)]
                ELSE th[u]]

\* submit_feedback lines 55-59: the membership test and query_data = pending[query_id].
submit_feedback_check(t) ==
    /\ th[t].pc = "idle"
    /\ \E query_id \in QueryIds, is_correct \in BOOLEAN, corrected_sql \in CorrectedSqls :
         /\ is_correct => corrected_sql = None
         /\ th' = [th EXCEPT ![t] =
                     IF query_id \notin DOMAIN pending_corrections
                     THEN [th_idle EXCEPT !.pc = "returned", !.query_id = query_id,
                                          !.is_correct = is_correct,
                                          !.corrected_sql = corrected_sql,
                                          !.ret = Some(FALSE)]
                     ELSE [th_idle EXCEPT !.pc = "checked", !.query_id = query_id,
                                          !.is_correct = is_correct,
                                          !.corrected_sql = corrected_sql,
                                          !.query_data = Some(pending_corrections[query_id])]]
    /\ UNCHANGED <<pending_corrections, logExists, logs, store, nextId, clock, fb, accepted, bulk, instance_ids>>
    /\ UNCHANGED <<wfVars, trVars>>

\* lines 61-67: query_data.update({...})
submit_feedback_update(t) ==
    /\ th[t].pc = "checked"
    /\ mutate_entry(t, feedback_update(th[t].query_data[1], th[t].is_correct,
                                       th[t].corrected_sql, None), "updated")
    /\ UNCHANGED <<logExists, logs, store, nextId, clock, fb, accepted, bulk, instance_ids>>
    /\ UNCHANGED <<wfVars, trVars>>

\* lines 69-79: _add_positive_training_data / _handle_correction, which write
\* to the vector store and set the training id on the entry.
submit_feedback_training(t) ==
    /\ th[t].pc = "updated"
    /\ th[t].is_correct \/ Truthy(th[t].corrected_sql)
    /\ \E o \in AddOutcomes :
         LET query_data == th[t].query_data[1]
             added == add_question_sql(store, query_data.question,
                                       IF th[t].is_correct THEN query_data.generated_sql
                                       ELSE th[t].corrected_sql[1],
                                       o.embedOk, o.upsertOk)
             key == IF th[t].is_correct THEN "training_id" ELSE "corrected_training_id"
             q == th[t].query_id
         IN /\ store' = added.store
            /\ pending_corrections' = IF q \in DOMAIN pending_corrections
                                      THEN SetKey(pending_corrections, q,
                                                  SetKey(query_data, key, added.id))
                                      ELSE pending_corrections
            /\ th' = [u \in Callers |->
                        IF u = t
                        THEN [th[u] EXCEPT !.query_data = Some(SetKey(query_data, key, added.id)),
                                           !.pc = "trained",
                                           !.upserted = ReturnedId(added.id)]
                        ELSE IF u \in Holders(q)
                        THEN [th[u] EXCEPT !.query_data = Some(SetKey(query_data, key, added.id))]
                        ELSE th[u]]
    /\ UNCHANGED <<logExists, logs, nextId, clock, fb, accepted, bulk, instance_ids>>
    /\ UNCHANGED <<wfVars, trVars>>

\* lines 80-81: _handle_negative_feedback only prints.
submit_feedback_negative(t) ==
    /\ th[t].pc = "updated"
    /\ ~th[t].is_correct /\ ~Truthy(th[t].corrected_sql)
    /\ th' = [th EXCEPT ![t].pc = "trained"]
    /\ UNCHANGED <<pending_corrections, logExists, logs, store, nextId, clock, fb, accepted, bulk, instance_ids>>
    /\ UNCHANGED <<wfVars, trVars>>

\* _update_feedback_log lines 157-161: the file is read into the local logs.
update_feedback_log_read(t) ==
    /\ th[t].pc = "trained"
    /\ th' = [th EXCEPT ![t] = IF logExists THEN [@ EXCEPT !.pc = "read", !.logs_read = logs]
                               ELSE [@ EXCEPT !.pc = "logged"]]
    /\ UNCHANGED <<pending_corrections, logExists, logs, store, nextId, clock, fb, accepted, bulk, instance_ids>>
    /\ UNCHANGED <<wfVars, trVars>>

\* _update_feedback_log lines 163-171: the entry is replaced in the local logs
\* and the whole file is written from them.
update_feedback_log_write(t) ==
    /\ th[t].pc = "read"
    /\ logs' = update_feedback_log(TRUE, th[t].logs_read, th[t].query_data[1])
    /\ th' = [th EXCEPT ![t].pc = "logged", ![t].logs_read = <<>>,
                        ![t].stale_write = (logs # th[t].logs_read)]
    /\ UNCHANGED <<pending_corrections, logExists, store, nextId, clock, fb, accepted, bulk, instance_ids>>
    /\ UNCHANGED <<wfVars, trVars>>

\* lines 86-88: del self.pending_corrections[query_id] (KeyError when the key
\* is gone) and return True.
submit_feedback_remove(t) ==
    /\ th[t].pc = "logged"
    /\ IF th[t].query_id \in DOMAIN pending_corrections
       THEN /\ pending_corrections' = remove_pending(pending_corrections, th[t].query_id)
            /\ th' = [th EXCEPT ![t].pc = "returned", ![t].ret = Some(TRUE)]
       ELSE /\ th' = [th EXCEPT ![t].pc = "returned", ![t].raised = TRUE]
            /\ UNCHANGED pending_corrections
    /\ UNCHANGED <<logExists, logs, store, nextId, clock, fb, accepted, bulk, instance_ids>>
    /\ UNCHANGED <<wfVars, trVars>>

Started == \E t \in Callers : th[t].pc # "idle"

\* log_query_execution taken line by line, for calls that overlap.
\* Lines 27-42: the id, the entry, and self.pending_corrections[query_id] = log_entry.
log_query_execution_begin(t) ==
    /\ th[t].pc \in {"idle", "returned"}
    /\ nextId < MaxQueries
    /\ \E question \in Questions, result_df \in ResultFrames :
         LET query_id == nextId + 1
             execution_success == result_df # None /\ ~empty(result_df[1])
             entry == log_entry(query_id, clock + 1, question, FbSql,
                                execution_success, result_df)
         IN /\ pending_corrections' = SetKey(pending_corrections, query_id, entry)
            /\ th' = [th EXCEPT ![t] = [th_idle EXCEPT !.pc = "entered", !.query_id = query_id,
                                                       !.query_data = Some(entry)]]
    /\ nextId' = nextId + 1
    /\ clock' = clock + 1
    /\ UNCHANGED <<logExists, logs, store, fb, accepted, bulk, instance_ids>>
    /\ UNCHANGED <<wfVars, trVars>>

\* _append_to_feedback_log lines 138-142: the whole file is read, or [] when
\* there is no file yet.
append_to_feedback_log_read(t) ==
    /\ th[t].pc = "entered"
    /\ th' = [th EXCEPT ![t].pc = "append_read",
                        ![t].logs_read = IF logExists THEN logs ELSE <<>>]
    /\ UNCHANGED <<pending_corrections, logExists, logs, store, nextId, clock, fb, accepted, bulk, instance_ids>>
    /\ UNCHANGED <<wfVars, trVars>>

\* Lines 145-149 and line 47: the entry is appended to the local list, the whole
\* file is written from it, and log_query_execution returns the id.
append_to_feedback_log_write(t) ==
    /\ th[t].pc = "append_read"
    /\ logs' = append_to_feedback_log(TRUE, th[t].logs_read, th[t].query_data[1])
    /\ logExists' = TRUE
    /\ instance_ids' = instance_ids \cup {th[t].query_id}
    /\ th' = [th EXCEPT ![t].pc = "returned", ![t].logs_read = <<>>,
                        ![t].stale_write = (logExists /\ logs # th[t].logs_read)
                                           \/ (~logExists /\ th[t].logs_read # <<>>)]
    /\ UNCHANGED <<pending_corrections, store, nextId, clock, fb, accepted, bulk>>
    /\ UNCHANGED <<wfVars, trVars>>

\* VannaFeedbackSystem.__init__: a new instance over the same feedback file
\* (the management script, or the application started again).
new_instance ==
    /\ pending_corrections # EmptyDict
    /\ pending_corrections' = EmptyDict
    /\ instance_ids' = {}
    /\ fb' = [op |-> "init", query_id |-> 0, ret |-> TRUE,
             is_correct |-> FALSE, corrected_sql |-> None]
    /\ UNCHANGED <<logExists, logs, store, nextId, clock, accepted, bulk>>
    /\ UNCHANGED <<wfVars, trVars, th>>

(***************************************************************************)
(* Initial state: the system is constructed, no question asked, no query   *)
(* logged, the feedback file not yet written, the collection empty.        *)
(***************************************************************************)
Init ==
    /\ pc = "idle"
    /\ state = EmptyDict
    /\ result = None
    /\ trace = <<>>
    /\ calls = <<>>
    /\ needs_database = "unset"
    /\ failed = {}
    /\ sqlOutcome = "none"
    /\ malformed = FALSE
    /\ pending_corrections = EmptyDict
    /\ logExists = FALSE
    /\ logs = <<>>
    /\ store = EmptyDict
    /\ nextId = 0
    /\ clock = 0
    /\ fb = [op |-> "none", query_id |-> 0, ret |-> FALSE,
             is_correct |-> FALSE, corrected_sql |-> None]
    /\ accepted = EmptyDict
    /\ bulk = [called |-> FALSE, corrections |-> <<>>, count |-> 0]
    /\ instance_ids = {}
    /\ tr = [op |-> "none", text |-> "", ret |-> <<>>]
    /\ returned_ids = [t \in TrainingTexts |-> <<>>]
    /\ rt = [op |-> "none", embedOk |-> TRUE, ret |-> <<>>]
    /\ gs = gs_idle
    /\ th = [t \in Callers |-> th_idle]

Next ==
    \/ \E question \in Questions : process_query(question)
    \/ run_router
    \/ run_sql_agent
    \/ run_strategy_agent
    \/ run_insight_agent
    \/ run_visualization_agent
    \/ run_suggestion_agent
    \/ run_strategy_suggestion_agent
    \/ run_summarizer
    \/ process_query_return
    \/ process_query_except

Spec == Init /\ [][Next]_vars

\* graph.invoke runs the steps one after the other in the caller's thread and
\* every collaborator call answers or raises: a step that can run does run.
SpecFair == Spec /\ WF_vars(Next)


\* The inputs of submit_feedback: is_correct, corrected_sql and what the
\* embedding provider and the store do when add_question_sql is reached.
SubmitInputs ==
    { in \in [is_correct : BOOLEAN, corrected_sql : CorrectedSqls,
              embedOk : BOOLEAN, upsertOk : BOOLEAN] :
        /\ in.is_correct => in.corrected_sql = None
        /\ (~in.is_correct /\ ~Truthy(in.corrected_sql)) => (in.embedOk /\ in.upsertOk)
        /\ ~in.embedOk => in.upsertOk }

SomeSubmitInput == [is_correct |-> TRUE, corrected_sql |-> None,
                    embedOk |-> TRUE, upsertOk |-> TRUE]

call_log_query_execution ==
    \E question \in Questions, result_df \in ResultFrames :
        log_query_execution(question, FbSql, result_df)

call_submit_feedback ==
    \E query_id \in QueryIds :
        \E in \in (IF query_id \in DOMAIN pending_corrections
                   THEN SubmitInputs ELSE {SomeSubmitInput}) :
            submit_feedback(query_id, in.is_correct, in.corrected_sql, None,
                            in.embedOk, in.upsertOk)

NextFeedback ==
    \/ call_log_query_execution
    \/ call_submit_feedback
    \/ new_instance

SpecFeedback == Init /\ [][NextFeedback]_vars

\* Queries are logged, then the two calls run, their steps interleaved.
NextConcurrent ==
    \/ (~Started /\ call_log_query_execution)
    \/ \E t \in Callers : submit_feedback_check(t)
    \/ \E t \in Callers : submit_feedback_update(t)
    \/ \E t \in Callers : submit_feedback_training(t)
    \/ \E t \in Callers : submit_feedback_negative(t)
    \/ \E t \in Callers : update_feedback_log_read(t)
    \/ \E t \in Callers : update_feedback_log_write(t)
    \/ \E t \in Callers : submit_feedback_remove(t)

SpecConcurrent == Init /\ [][NextConcurrent]_vars

\* Calls of log_query_execution from workflow runs in flight at the same time,
\* their steps interleaved.
NextConcurrentLog ==
    \/ \E t \in Callers : log_query_execution_begin(t)
    \/ \E t \in Callers : append_to_feedback_log_read(t)
    \/ \E t \in Callers : append_to_feedback_log_write(t)

SpecConcurrentLog == Init /\ [][NextConcurrentLog]_vars

\* One bulk import over the queries logged so far.
Corrections ==
    { c \in [query_id : QueryIds, is_correct : BOOLEAN,
             corrected_sql : {None, Some("SELECT 1;")}, embedOk : BOOLEAN] :
        /\ c.is_correct => c.corrected_sql = None
        /\ ~c.is_correct => c.embedOk }

call_bulk_apply_corrections ==
    /\ ~bulk.called
    /\ \E corrections \in SeqsUpTo(Corrections, MaxCorrections) \ {<<>>} :
         LET r == bulk_apply_corrections(System, corrections)
         IN /\ pending_corrections' = r.sys.pending
            /\ logs' = r.sys.logs
            /\ store' = r.sys.store
            /\ bulk' = [called |-> TRUE, corrections |-> corrections, count |-> r.count]
    /\ fb' = [op |-> "bulk", query_id |-> 0, ret |-> TRUE,
              is_correct |-> FALSE, corrected_sql |-> None]
    /\ UNCHANGED <<logExists, nextId, clock, accepted, instance_ids>>
    /\ UNCHANGED <<wfVars, trVars, th>>

NextBulk ==
    \/ (~bulk.called /\ call_log_query_execution)
    \/ call_bulk_apply_corrections

SpecBulk == Init /\ [][NextBulk]_vars

\* The training script (training.py): the statements, documentation texts and
\* question-SQL pairs it adds, in the order it adds them.
DdlStatements ==
    << "CREATE TABLE dwh.dim_fakultas", "CREATE TABLE dwh.dim_program_studi",
       "CREATE TABLE dwh.dim_dosen", "CREATE TABLE dwh.dim_mata_kuliah",
       "CREATE TABLE dwh.dim_mahasiswa", "CREATE TABLE dwh.dim_semester" >>

DocumentationTexts ==
    << "Indonesian University Terms:", "University Business Rules:", "Database Structure:" >>

TrainingPairs ==
    << [question |-> "Berapa jumlah mahasiswa aktif?", sql |-> "SELECT COUNT(*)"],
       [question |-> "Berapa total mahasiswa aktif?", sql |-> "SELECT COUNT(mahasiswa_id)"],
       [question |-> "Siapa mahasiswa dengan IPK tertinggi?", sql |-> "SELECT nim"],
       [question |-> "Berapa rata-rata IPK per program studi?", sql |-> "SELECT ps.nama_prodi"],
       [question |-> "Daftar fakultas dengan jumlah mahasiswa terbanyak",
        sql |-> "SELECT f.nama_fakultas, COUNT(m.mahasiswa_id)"],
       [question |-> "Berapa jumlah dosen per fakultas?",
        sql |-> "SELECT f.nama_fakultas, COUNT(d.dosen_id)"] >>

Trained(kind) == Cardinality(KindIds(store, kind))

UnchangedByTraining ==
    /\ UNCHANGED <<pending_corrections, logExists, logs, nextId, clock, fb, accepted, bulk, instance_ids>>
    /\ UNCHANGED <<tr, returned_ids, gs>>
    /\ UNCHANGED <<wfVars, th>>

train_ddl ==
    /\ Trained("ddl") < MaxRecords
    /\ Trained("ddl") < Len(DdlStatements)
    /\ store' = add_ddl(store, DdlStatements[Trained("ddl") + 1], TRUE, TRUE).store
    /\ UNCHANGED rt
    /\ UnchangedByTraining

train_documentation ==
    /\ Trained("documentation") < MaxRecords
    /\ Trained("documentation") < Len(DocumentationTexts)
    /\ store' = add_documentation(store, DocumentationTexts[Trained("documentation") + 1],
                                  TRUE, TRUE).store
    /\ UNCHANGED rt
    /\ UnchangedByTraining

train_sample_questions ==
    /\ Trained("question_sql") < MaxRecords
    /\ Trained("question_sql") < Len(TrainingPairs)
    /\ LET pair == TrainingPairs[Trained("question_sql") + 1]
       IN store' = add_question_sql(store, pair.question, pair.sql, TRUE, TRUE).store
    /\ UNCHANGED rt
    /\ UnchangedByTraining

\* One retrieval call over the collection as it is.
RetrievalOutcomes ==
    { o \in [embedOk : BOOLEAN, searchOk : BOOLEAN] : ~o.embedOk => o.searchOk }

call_get_related_ddl ==
    /\ \E o \in RetrievalOutcomes, ranking \in Rankings(KindIds(store, "ddl")) :
           rt' = [op |-> "get_related_ddl", embedOk |-> o.embedOk,
                  ret |-> get_related_ddl(store, o.embedOk, o.searchOk, ranking)]
    /\ UNCHANGED store
    /\ UnchangedByTraining

call_get_related_documentation ==
    /\ \E o \in RetrievalOutcomes, ranking \in Rankings(KindIds(store, "documentation")) :
           rt' = [op |-> "get_related_documentation", embedOk |-> o.embedOk,
                  ret |-> get_related_documentation(store, o.embedOk, o.searchOk, ranking)]
    /\ UNCHANGED store
    /\ UnchangedByTraining

call_get_similar_question_sql ==
    /\ \E o \in RetrievalOutcomes, ranking \in Rankings(KindIds(store, "question_sql")) :
           rt' = [op |-> "get_similar_question_sql", embedOk |-> o.embedOk,
                  ret |-> get_similar_question_sql(store, o.embedOk, o.searchOk, ranking)]
    /\ UNCHANGED store
    /\ UnchangedByTraining

\* run_full_training: the three training steps, each adding its items in order
\* (the first MaxRecords of each list).
RECURSIVE train_ddl_all(_, _)
train_ddl_all(st, n) ==
    IF n = 0 THEN st ELSE add_ddl(train_ddl_all(st, n - 1), DdlStatements[n], TRUE, TRUE).store

RECURSIVE train_sample_questions_all(_, _)
train_sample_questions_all(st, n) ==
    IF n = 0 THEN st
    ELSE add_question_sql(train_sample_questions_all(st, n - 1), TrainingPairs[n].question,
                          TrainingPairs[n].sql, TRUE, TRUE).store

RECURSIVE train_documentation_all(_, _)
train_documentation_all(st, n) ==
    IF n = 0 THEN st
    ELSE add_documentation(train_documentation_all(st, n - 1), DocumentationTexts[n],
                           TRUE, TRUE).store

run_full_training ==
    /\ store' = train_documentation_all(
                    train_sample_questions_all(
                        train_ddl_all(store, Min(MaxRecords, Len(DdlStatements))),
                        Min(MaxRecords, Len(TrainingPairs))),
                    Min(MaxRecords, Len(DocumentationTexts)))
    /\ UNCHANGED <<pending_corrections, logExists, logs, nextId, clock, fb, accepted, bulk, instance_ids>>
    /\ UNCHANGED <<tr, returned_ids, rt, gs>>
    /\ UNCHANGED <<wfVars, th>>

UnchangedByGenerateSql ==
    /\ UNCHANGED <<pending_corrections, logExists, logs, store, nextId, clock, fb, accepted, bulk, instance_ids>>
    /\ UNCHANGED <<tr, returned_ids, rt>>
    /\ UNCHANGED <<wfVars, th>>

\* generate_sql(question), one step per call it makes.
generate_sql_get_related_ddl ==
    /\ gs.pc \in {"idle", "returned"}
    /\ \E question \in Questions, o \in RetrievalOutcomes,
          ranking \in Rankings(KindIds(store, "ddl")) :
           gs' = [gs_idle EXCEPT !.pc = "related_ddl", !.question = question,
                      !.related_ddl = get_related_ddl(store, o.embedOk, o.searchOk, ranking),
                      !.retrieval_failed = RetrievalFailed(o, "ddl")]
    /\ UnchangedByGenerateSql

generate_sql_get_related_documentation ==
    /\ gs.pc = "related_ddl"
    /\ \E o \in RetrievalOutcomes, ranking \in Rankings(KindIds(store, "documentation")) :
           gs' = [gs EXCEPT !.pc = "related_docs",
                      !.related_docs = get_related_documentation(store, o.embedOk,
                                                                 o.searchOk, ranking),
                      !.retrieval_failed = @ \cup RetrievalFailed(o, "documentation")]
    /\ UnchangedByGenerateSql

generate_sql_get_similar_question_sql ==
    /\ gs.pc = "related_docs"
    /\ \E o \in RetrievalOutcomes, ranking \in Rankings(KindIds(store, "question_sql")) :
           gs' = [gs EXCEPT !.pc = "similar_questions",
                      !.similar_questions = get_similar_question_sql(store, o.embedOk,
                                                                     o.searchOk, ranking),
                      !.retrieval_failed = @ \cup RetrievalFailed(o, "question_sql")]
    /\ UnchangedByGenerateSql

\* The rest of the call: context, prompt, completion, clean-up, return.  The
\* locals are gone when the call has returned.
generate_sql_return ==
    /\ gs.pc = "similar_questions"
    /\ \E completion \in Completions :
           LET r == generate_sql(gs.question, gs.related_ddl, gs.related_docs,
                                 gs.similar_questions, completion)
           IN gs' = [gs_idle EXCEPT !.pc = "returned", !.question = gs.question,
                         !.completion = completion, !.raised = r.raised,
                         !.retrieval_failed = gs.retrieval_failed,
                         !.ret = IF r.raised THEN None ELSE Some(r.value)]
    /\ UnchangedByGenerateSql

NextGenerateSql ==
    \/ run_full_training
    \/ generate_sql_get_related_ddl
    \/ generate_sql_get_related_documentation
    \/ generate_sql_get_similar_question_sql
    \/ generate_sql_return

SpecGenerateSql == Init /\ [][NextGenerateSql]_vars

\* The feedback loop: sample pairs are trained, queries are logged and rated,
\* and afterwards generate_sql is called on the collection they left.
\* Queries logged before generate_sql is called.
MaxLoopQueries == 1

loop_log_query_execution ==
    /\ gs.pc = "idle"
    /\ nextId < MaxLoopQueries
    /\ \E question \in Questions :
         log_query_execution(question, FbSql, Some(DataFrame(MaxRows, <<NumCol("jumlah")>>)))

loop_submit_feedback ==
    /\ gs.pc = "idle"
    /\ Trained("question_sql") < MaxRecords
    /\ \E query_id \in DOMAIN pending_corrections, in \in SubmitInputs :
         submit_feedback(query_id, in.is_correct, in.corrected_sql, None,
                         in.embedOk, in.upsertOk)

\* The sample pairs are trained when the system is set up, before any query
\* is logged.
loop_train_sample_questions ==
    /\ gs.pc = "idle"
    /\ nextId = 0
    /\ train_sample_questions

NextLoop ==
    \/ loop_log_query_execution
    \/ loop_submit_feedback
    \/ loop_train_sample_questions
    \/ generate_sql_get_related_ddl
    \/ generate_sql_get_related_documentation
    \/ generate_sql_get_similar_question_sql
    \/ generate_sql_return

SpecLoop == Init /\ [][NextLoop]_vars

NextRetrieval ==
    \/ train_ddl
    \/ train_documentation
    \/ train_sample_questions
    \/ call_get_related_ddl
    \/ call_get_related_documentation
    \/ call_get_similar_question_sql

SpecRetrieval == Init /\ [][NextRetrieval]_vars

\* Training calls on the vector store: vn.add_ddl(text), vn.add_documentation(text).
training_call(op, text, r) ==
    /\ ReturnedId(r.id) => Len(returned_ids[text]) < MaxAdds
    /\ store' = r.store
    /\ tr' = [op |-> op, text |-> text, ret |-> r.id]
    /\ returned_ids' = IF ReturnedId(r.id)
                       THEN [returned_ids EXCEPT ![text] = Append(@, [op |-> op, id |-> r.id])]
                       ELSE returned_ids
    /\ UNCHANGED <<pending_corrections, logExists, logs, nextId, clock, fb, accepted, bulk, instance_ids, rt, gs>>
    /\ UNCHANGED <<wfVars, th>>

call_add_ddl ==
    \E ddl \in TrainingTexts, o \in AddOutcomes :
        training_call("add_ddl", ddl, add_ddl(store, ddl, o.embedOk, o.upsertOk))

call_add_documentation ==
    \E documentation \in TrainingTexts, o \in AddOutcomes :
        training_call("add_documentation", documentation,
                      add_documentation(store, documentation, o.embedOk, o.upsertOk))

\* vn.remove_training_data(id), for the id of one of the texts.
call_remove_training_data ==
    \E text \in TrainingTexts, deleteOk \in BOOLEAN :
        LET r == remove_training_data(store, md5(Text(text)), deleteOk)
        IN /\ store' = r.store
           /\ tr' = [op |-> "remove_training_data", text |-> text, ret |-> r.ret]
           /\ UNCHANGED <<pending_corrections, logExists, logs, nextId, clock, fb,
                          accepted, bulk, instance_ids, returned_ids, rt, gs>>
           /\ UNCHANGED <<wfVars, th>>

NextTraining ==
    \/ call_add_ddl
    \/ call_add_documentation
    \/ call_remove_training_data

SpecTraining == Init /\ [][NextTraining]_vars


(***************************************************************************)
(* Properties.                                                             *)
(***************************************************************************)
Range(seq) == { seq[i] : i \in 1..Len(seq) }
IsPrefix(a, b) == Len(a) <= Len(b) /\ \A i \in 1..Len(a) : a[i] = b[i]

StrategyPath == <<"router", "strategy_agent", "strategy_suggestion_agent", "summarizer">>
SqlCalls == {"vanna.generate_sql", "vanna.run_sql"}

\* C1: in a run whose router classified the question as needs_database=false,
\* neither generate_sql nor run_sql is ever invoked, the sql step never runs,
\* and data stays absent and sql_query empty, in the state and in the
\* returned record.
C1_StrategyPathNeverQueries ==
    needs_database = "no" =>
        /\ Range(calls) \cap SqlCalls = {}
        /\ "sql_agent" \notin Range(trace)
        /\ state.data = None /\ state.sql_query = ""
        /\ result # None => (result[1].data = None /\ result[1].sql_query = "")

C1_Witness ==
    /\ needs_database = "no"
    /\ pc = "returned"
    /\ trace = StrategyPath
    /\ result[1].success

\* C2 (as claimed): when run_sql returned nothing (None, on an execution
\* failure) or an empty table, the returned record carries an error and
\* success=false.
C2_EmptyResultReportsFailure ==
    (sqlOutcome \in {"empty", "null"} /\ result # None) =>
        (result[1].error # "" /\ ~result[1].success)

\* C3: when run_sql returned an empty table or None, the run ends right after
\* the sql step (no insight, visualization, suggestion or summarizer step) and
\* data is absent in the state and in the returned record.
C3_EmptyResultTerminates ==
    sqlOutcome \in {"empty", "null"} =>
        /\ trace = <<"router", "sql_agent">>
        /\ pc \in {"END", "returned"}
        /\ state.data = None
        /\ result # None => result[1].data = None

C3_Witness ==
    /\ sqlOutcome = "empty"
    /\ pc = "returned"
    /\ "graph" \notin failed
    /\ state.sql_query \in SqlStrings

\* C4 (as claimed): once a step has set error, no further step executes: the
\* run is at END (or has returned), never at another node.
C4_ErrorShortCircuits ==
    (pc # "idle" /\ state.error # "") => pc \in {"END", "returned"}

\* C5 (as claimed): a completion-provider failure that the insight,
\* suggestion, strategy or strategy-suggestion step absorbs with placeholder
\* content does not make the reported success false: when only such steps
\* failed in a run, the record process_query returns has success=true.
AbsorbingNodes ==
    {"insight_agent", "suggestion_agent", "strategy_agent", "strategy_suggestion_agent"}

C5_AbsorbedFailureKeepsSuccess ==
    (result # None /\ failed # {} /\ failed \subseteq AbsorbingNodes) =>
        result[1].success

\* C6 (as claimed): every record process_query returns holds all ten fields.
ResultFields ==
    { "success", "query_type", "sql_query", "sql_result", "data", "insights",
      "suggestions", "strategy_response", "messages", "error" }

C6_ResultWellFormed == result # None => ResultFields \subseteq DOMAIN result[1]

\* C7: when the router's response holds none of the recognised prefixes, the
\* router sets query_type=strategy_question, needs_database=false and
\* visualization_needed=false without setting error, and the run follows
\* router -> strategy -> strategy-suggestion -> summarizer.
C7_MalformedDefaultsToStrategy ==
    malformed =>
        /\ state.query_type = "strategy_question"
        /\ needs_database = "no"
        /\ ~state.visualization_needed
        /\ "router" \notin failed
        /\ trace = <<"router">> => state.error = ""
        /\ IsPrefix(trace, StrategyPath)
        /\ pc \in Nodes => pc = StrategyPath[Len(trace) + 1]
        /\ pc = "END" => trace = StrategyPath

C7_Witness ==
    /\ malformed
    /\ pc = "returned"
    /\ trace = StrategyPath
    /\ "graph" \notin failed

\* C8 (as claimed): when the router's provider call fails the run is not
\* aborted: the classification degrades to strategy_question and the strategy
\* step runs next.
C8_RouterFailureDegrades ==
    "router" \in failed =>
        /\ state.error = ""
        /\ state.query_type = "strategy_question"
        /\ (trace = <<"router">> /\ pc # "returned") => pc = "strategy_agent"

\* C8 (amended): when the router's provider call fails the router sets error
\* and no classification, no other step executes, the graph goes to END and
\* process_query reports success=false.
C8_RouterFailureIsFatal ==
    "router" \in failed =>
        /\ state.error = "Router error"
        /\ state.query_type = "" /\ needs_database = "unset"
        /\ trace = <<"router">>
        /\ pc \in {"END", "returned"}
        /\ result # None => ~result[1].success

C8_Witness ==
    /\ "router" \in failed
    /\ pc = "returned"
    /\ "graph" \notin failed
    /\ result[1].error = "Router error"

\* C9: a submit_feedback call for a query_id that is not in pending returns
\* False and leaves pending, the feedback file and the vector store as they
\* were; and no query_id has more than one accepted submission.
C9_UnknownIdRejected ==
    /\ [](\A q \in QueryIds : Accepted(q) <= 1)
    /\ [][ (fb'.op = "submit" /\ fb'.query_id \notin DOMAIN pending_corrections) =>
              (/\ ~fb'.ret
               /\ pending_corrections' = pending_corrections
               /\ logExists' = logExists /\ logs' = logs
               /\ store' = store) ]_vars

\* a closed id was submitted again and refused
C9_Witness ==
    /\ fb.op = "submit" /\ ~fb.ret
    /\ Accepted(fb.query_id) = 1
    /\ fb.query_id \notin DOMAIN pending_corrections

\* C10: the counts of get_feedback_stats partition the log:
\* correct + incorrect + no_feedback = total.
C10_StatsPartition ==
    LET st == get_feedback_stats
    IN st.correct + st.incorrect + st.no_feedback = st.total

C10_Witness ==
    LET st == get_feedback_stats
    IN st.total = 2 /\ st.correct = 1 /\ st.incorrect = 1 /\ fb.op = "submit"

\* The entries of the feedback file that carry query_id q.
LogEntriesOf(content, q) ==
    { content[i] : i \in { j \in 1..Len(content) : content[j].query_id = q } }

\* The collection holds a question_sql point whose payload is (question, sql).
HasQuestionSql(st, question, sql) ==
    \E id \in DOMAIN st :
        /\ st[id].type = "question_sql"
        /\ st[id].question = question
        /\ st[id].sql = sql

\* A submit_feedback call on a pending query_id is taking place in this step.
SubmitOnPending ==
    /\ fb'.op = "submit"
    /\ fb'.query_id \in DOMAIN pending_corrections

\* C11 (as claimed): a submit_feedback(is_correct=true) on a logged (pending)
\* query returns True, leaves the file entry of that id rated correct with
\* feedback_received set, and leaves in the vector store a question_sql record
\* whose payload is the original (question, generated_sql).
C11_PositiveFeedbackStored ==
    [][ (SubmitOnPending /\ fb'.is_correct) =>
          LET e == pending_corrections[fb'.query_id]
          IN /\ fb'.ret
             /\ \A l \in LogEntriesOf(logs', fb'.query_id) :
                    IsCorrect(l) /\ ~NoFeedback(l)
             /\ LogEntriesOf(logs', fb'.query_id) # {}
             /\ HasQuestionSql(store', e.question, e.generated_sql) ]_vars

\* C12 (as claimed): a submit_feedback(is_correct=false, corrected_sql=S) on a
\* logged query leaves the file entry rated incorrect, adds exactly one point
\* to the vector store, a question_sql record pairing the question with S, and
\* leaves every point that was in the store before as it was.
C12_CorrectionAddsOneRecord ==
    [][ (SubmitOnPending /\ ~fb'.is_correct /\ Truthy(fb'.corrected_sql)) =>
          LET e == pending_corrections[fb'.query_id]
              new == DOMAIN store' \ DOMAIN store
          IN /\ \A l \in LogEntriesOf(logs', fb'.query_id) : IsIncorrect(l)
             /\ Cardinality(new) = 1
             /\ \A id \in new : /\ store'[id].type = "question_sql"
                                /\ store'[id].question = e.question
                                /\ store'[id].sql = fb'.corrected_sql[1]
             /\ \A id \in DOMAIN store :
                    id \in DOMAIN store' /\ store'[id] = store[id] ]_vars

\* C13: a submit_feedback(is_correct=false) without a corrected_sql (None, or
\* the empty string) leaves the vector store exactly as it was, returns True,
\* leaves the file entry with feedback_received set and rated incorrect, and
\* removes the id from pending.
C13_NegativeFeedbackNoStoreWrite ==
    [][ (SubmitOnPending /\ ~fb'.is_correct /\ fb'.corrected_sql \in {None, Some("")}) =>
          /\ store' = store
          /\ fb'.ret
          /\ LogEntriesOf(logs', fb'.query_id) # {}
          /\ \A l \in LogEntriesOf(logs', fb'.query_id) :
                 l.feedback_received /\ IsIncorrect(l)
          /\ fb'.query_id \notin DOMAIN pending_corrections' ]_vars

\* negative feedback with an empty correction arrived over a store that
\* already holds a record
C13_Witness ==
    /\ fb.op = "submit" /\ fb.ret
    /\ ~fb.is_correct /\ fb.corrected_sql = Some("")
    /\ store # EmptyDict
    /\ \E l \in LogEntriesOf(logs, fb.query_id) : IsIncorrect(l)

\* The points of the collection that hold the pair (question, sql).
SamePairRecords(st, question, sql) ==
    { id \in DOMAIN st : /\ st[id].type = "question_sql"
                         /\ st[id].question = question
                         /\ st[id].sql = sql }

\* Entries i and j of the feedback file are two logged queries with the same
\* question and SQL, both confirmed, whose store adds both returned an id.
ConfirmedTwice(i, j) ==
    /\ i < j
    /\ logs[i].question = logs[j].question
    /\ logs[i].generated_sql = logs[j].generated_sql
    /\ IsCorrect(logs[i]) /\ IsCorrect(logs[j])
    /\ logs[i].training_id[1] = "md5" /\ logs[j].training_id[1] = "md5"

\* C14 (as claimed): two logged queries with the same question and SQL, each
\* confirmed, leave two distinct question_sql records of that pair in the
\* vector store.
C14_DuplicatePairTwoRecords ==
    \A i, j \in 1..Len(logs) :
        ConfirmedTwice(i, j) =>
            Cardinality(SamePairRecords(store, logs[i].question, logs[i].generated_sql)) >= 2

\* C14 (amended): two logged queries with the same question and SQL, each
\* confirmed, receive the same content-derived id and leave exactly one
\* question_sql record of that pair in the vector store.
C14_DuplicatePairOneRecord ==
    \A i, j \in 1..Len(logs) :
        ConfirmedTwice(i, j) =>
            /\ logs[i].training_id = logs[j].training_id
            /\ SamePairRecords(store, logs[i].question, logs[i].generated_sql)
                   = {logs[i].training_id}

C14_Witness ==
    /\ \E i, j \in 1..Len(logs) : ConfirmedTwice(i, j)
    /\ Cardinality(DOMAIN store) = 1
    /\ fb.op = "submit" /\ fb.is_correct /\ fb.ret

\* The points of the collection whose content is the given text.
RecordsOf(st, text) == { id \in DOMAIN st : st[id].content = Text(text) }

AddOps == {"add_ddl", "add_documentation"}

\* C15: the add_ddl and add_documentation calls that returned an id for one
\* text all returned the same id, and after each such call the collection
\* holds exactly one record of that text, stored under that id; a repeated
\* add of a text whose record is present adds no point.
C15_AddIdempotent ==
    /\ [](\A t \in TrainingTexts : \A i, j \in 1..Len(returned_ids[t]) :
              returned_ids[t][i].id = returned_ids[t][j].id)
    /\ [][ (tr'.op \in AddOps /\ ReturnedId(tr'.ret)) =>
              /\ RecordsOf(store', tr'.text) = {tr'.ret}
              /\ RecordsOf(store, tr'.text) # {} => DOMAIN store' = DOMAIN store ]_vars

\* add_ddl returned an id twice for the same text
C15_Witness ==
    /\ tr.op = "add_ddl" /\ ReturnedId(tr.ret)
    /\ Len(returned_ids[tr.text]) = 2
    /\ \A i \in 1..2 : returned_ids[tr.text][i].op = "add_ddl"
    /\ RecordsOf(store, tr.text) = {tr.ret}
    /\ store[tr.ret].type = "ddl"

\* sql_result describes the table d: its row count and its column names in order.
Describes(sql_result, d) ==
    /\ d # None
    /\ sql_result.row_count = d[1].rows
    /\ Len(sql_result.columns) = Len(d[1].columns)
    /\ \A i \in 1..Len(d[1].columns) : sql_result.columns[i] = d[1].columns[i].name

Succeeded(sql_result) == "success" \in DOMAIN sql_result /\ sql_result.success

LaterNodes == {"insight_agent", "visualization_agent", "suggestion_agent", "summarizer"}

\* C16: whenever sql_result reports success, in the run's state and in the
\* returned record, its row_count is the number of rows of data and its
\* columns are the column names of data in order; and the insight,
\* visualization, suggestion and summarizer steps leave data and sql_result
\* as they were.
C16_SqlResultDescribesData ==
    /\ []((pc # "idle" /\ Succeeded(state.sql_result)) =>
              Describes(state.sql_result, state.data))
    /\ []((result # None /\ Succeeded(result[1].sql_result)) =>
              Describes(result[1].sql_result, result[1].data))
    /\ [][ (pc \in LaterNodes) =>
              (state'.data = state.data /\ state'.sql_result = state.sql_result) ]_vars

\* a successful run over a table of three columns went through to the summarizer
C16_Witness ==
    /\ pc = "returned" /\ result[1].success
    /\ Succeeded(result[1].sql_result)
    /\ result[1].sql_result.row_count = MaxRows
    /\ Len(result[1].sql_result.columns) = 3
    /\ trace[Len(trace)] = "summarizer"

Perms(n) == { f \in [1..n -> 1..n] : \A i, j \in 1..n : f[i] = f[j] => i = j }
Permute(seq, f) == [i \in 1..Len(seq) |-> seq[f[i]]]
PermutationsOf(seq) == { Permute(seq, f) : f \in Perms(Len(seq)) }

\* This step is the bulk_apply_corrections call.
BulkStep == ~bulk.called /\ bulk'.called

\* What the call in this step returned and left behind.
BulkOutcome ==
    [count |-> bulk'.count,
     sys |-> [pending |-> pending_corrections', logExists |-> logExists',
              logs |-> logs', store |-> store']]

DistinctIds(corrections) ==
    \A i, j \in 1..Len(corrections) :
        corrections[i].query_id = corrections[j].query_id => i = j

\* C18 (as claimed): for every permutation of the corrections given to
\* bulk_apply_corrections, the returned count and the resulting pending index,
\* feedback file and vector store are the ones the call produced.
C18_BulkOrderIndependent ==
    [][ BulkStep =>
          \A perm \in PermutationsOf(bulk'.corrections) :
              bulk_apply_corrections(System, perm) = BulkOutcome ]_vars

\* C18 (amended): the count bulk_apply_corrections returns is the number of
\* its submissions that succeeded, one for each pending query_id the
\* corrections name, and is the same for every permutation; the resulting
\* pending index, feedback file and vector store are the same for every
\* permutation when no two corrections name the same query_id.
C18_BulkOrderIndependentDistinctIds ==
    [][ BulkStep =>
          /\ bulk'.count =
                 Cardinality({ bulk'.corrections[i].query_id : i \in 1..Len(bulk'.corrections) }
                                 \cap DOMAIN pending_corrections)
          /\ \A perm \in PermutationsOf(bulk'.corrections) :
                 /\ bulk_apply_corrections(System, perm).count = bulk'.count
                 /\ DistinctIds(bulk'.corrections) =>
                        bulk_apply_corrections(System, perm) = BulkOutcome ]_vars

\* two corrections for two different logged queries were both applied
C18_Witness ==
    /\ bulk.called /\ bulk.count = 2
    /\ Len(bulk.corrections) = 2 /\ DistinctIds(bulk.corrections)
    /\ bulk.corrections[1].is_correct /\ ~bulk.corrections[2].is_correct
    /\ pending_corrections = EmptyDict
    /\ store # EmptyDict

StatsFields ==
    {"total", "correct", "incorrect", "no_feedback", "success_rate", "correction_rate"}

\* C19 (as claimed): in every state, also before any query is logged,
\* get_feedback_stats returns the six fields total, correct, incorrect,
\* no_feedback, success_rate and correction_rate, and both rates are 0 when
\* correct + incorrect = 0.
C19_StatsSixFields ==
    LET st == get_feedback_stats
    IN /\ StatsFields \subseteq DOMAIN st
       /\ (st.correct + st.incorrect = 0) =>
              (st.success_rate[1] = 0 /\ st.correction_rate[1] = 0)

\* C20: for every limit, get_queries_for_review(limit) returns entries of the
\* feedback file with feedback_received = FALSE, none of them for a query_id
\* whose feedback was accepted, in order of non-increasing timestamp; it
\* returns min(limit, number of such entries) of them, and every such entry
\* it leaves out is not newer than the ones it returns.
C20_QueriesForReview ==
    \A limit \in 0..MaxLimit :
        LET r == get_queries_for_review(limit)
            unreviewed == { l \in Range(logs) : ~l.feedback_received }
        IN /\ Range(r) \subseteq unreviewed
           /\ \A l \in Range(r) : Accepted(l.query_id) = 0
           /\ Len(r) = Min(limit, Len(SelectSeq(logs, NoFeedback)))
           /\ Cardinality(Range(r)) = Len(r)
           /\ \A i, j \in 1..Len(r) : i < j => r[i].timestamp >= r[j].timestamp
           /\ \A l \in unreviewed \ Range(r) :
                  \A i \in 1..Len(r) : l.timestamp <= r[i].timestamp

\* two queries wait for review and the limit cuts the older one off
C20_Witness ==
    /\ Len(logs) = 2
    /\ get_queries_for_review(1) = <<logs[2]>>
    /\ get_queries_for_review(2) = <<logs[2], logs[1]>>

\* C21 (as claimed): remove_training_data(id) returns True exactly when a
\* record with that id was in the store and is gone afterwards; for an id
\* that is not in the store it returns False and leaves the store as it was.
C21_RemoveReturnsTrueIffRemoved ==
    [][ (tr'.op = "remove_training_data") =>
          LET id == md5(Text(tr'.text))
          IN /\ tr'.ret <=> (id \in DOMAIN store /\ id \notin DOMAIN store')
             /\ id \notin DOMAIN store => (~tr'.ret /\ store' = store) ]_vars

\* The payloads of one kind in the store, by the field the retrieval reads.
PayloadsOf(kind, field) == { store[id][field] : id \in KindIds(store, kind) }

RetrievalOps == {"get_related_ddl", "get_related_documentation", "get_similar_question_sql"}

RetrievalKind(op) ==
    CASE op = "get_related_ddl" -> [kind |-> "ddl", field |-> "ddl", limit |-> DdlLimit]
      [] op = "get_related_documentation" ->
            [kind |-> "documentation", field |-> "documentation", limit |-> DocumentationLimit]
      [] op = "get_similar_question_sql" ->
            [kind |-> "question_sql", field |-> "content", limit |-> QuestionSqlLimit]

\* C22: each retrieval sub-step of SQL generation returns only payloads of its
\* own kind and at most its limit (3 ddl, 2 documentation, 3 question_sql);
\* when embedding the question fails, the sub-step returns the empty sequence.
C22_RetrievalOwnKindWithinLimit ==
    rt.op \in RetrievalOps =>
        LET k == RetrievalKind(rt.op)
        IN /\ Len(rt.ret) <= k.limit
           /\ Range(rt.ret) \subseteq PayloadsOf(k.kind, k.field)
           /\ ~rt.embedOk => rt.ret = <<>>

\* A retrieval that had more ddl records than its limit to choose from, with
\* records of the other kinds in the store, and returned a full page.
C22_Witness ==
    /\ rt.op = "get_related_ddl"
    /\ Len(rt.ret) = DdlLimit
    /\ Trained("ddl") > DdlLimit
    /\ Trained("documentation") > 0
    /\ Trained("question_sql") > 0

\* C23: generate_sql always returns a string and never raises; when the
\* completion provider fails it returns the sentinel string
\* "-- Error generating SQL query".
C23_GenerateSqlAlwaysReturnsString ==
    gs.pc = "returned" =>
        /\ ~gs.raised
        /\ gs.ret # None
        /\ gs.completion = None => gs.ret = Some(Text(SqlErrorSentinel))
        /\ gs.completion # None => gs.ret = Some(clean_sql(gs.completion[1]))

\* generate_sql returned the sentinel after a provider failure, on a trained
\* store.
C23_Witness ==
    /\ gs.pc = "returned"
    /\ gs.completion = None
    /\ gs.ret = Some(Text(SqlErrorSentinel))
    /\ Trained("ddl") > 0

SqlPath == <<"router", "sql_agent", "insight_agent", "suggestion_agent", "summarizer">>
SqlPathWithVisualization ==
    <<"router", "sql_agent", "insight_agent", "visualization_agent", "suggestion_agent",
      "summarizer">>
SqlPathNodes == {"sql_agent", "insight_agent", "visualization_agent", "suggestion_agent"}
StrategyPathNodes == {"strategy_agent", "strategy_suggestion_agent"}

\* The edges between steps, as the two paths give them.
EdgesOf(p) == { <<p[i], p[i + 1]>> : i \in 1..(Len(p) - 1) }
PathEdges == EdgesOf(SqlPath) \cup EdgesOf(SqlPathWithVisualization) \cup EdgesOf(StrategyPath)

\* C24: a run executes steps only along the edges of the workflow graph: it
\* starts at router, follows sql -> insight -> [visualization] -> suggestion
\* -> summarizer or strategy -> strategy-suggestion -> summarizer, executes no
\* step twice and never mixes steps of the two paths; a run that reached the
\* summarizer ran one of the paths from its start to its end.
C24_StepsFollowGraphEdges ==
    /\ trace # <<>> => trace[1] = "router"
    /\ \A i \in 1..(Len(trace) - 1) : <<trace[i], trace[i + 1]>> \in PathEdges
    /\ \A i, j \in 1..Len(trace) : trace[i] = trace[j] => i = j
    /\ ~(Range(trace) \cap SqlPathNodes # {} /\ Range(trace) \cap StrategyPathNodes # {})
    /\ pc \in {"insight_agent", "visualization_agent", "suggestion_agent"}
         => "sql_agent" \in Range(trace)
    /\ pc = "strategy_suggestion_agent" => "strategy_agent" \in Range(trace)
    /\ "summarizer" \in Range(trace)
         => trace \in {SqlPath, SqlPathWithVisualization, StrategyPath}

\* A run that went down the SQL path without visualization and returned.
C24_Witness ==
    /\ pc = "returned"
    /\ result[1].success
    /\ trace = SqlPath

\* The longest path of the graph: six steps.
MaxStepExecutions == Len(SqlPathWithVisualization)

\* C25: every workflow run terminates: whatever the collaborators answer and
\* whichever step fails, at most 6 steps execute and process_query returns a
\* result.
C25_RunTerminatesWithinSixSteps ==
    /\ [](Len(trace) <= MaxStepExecutions)
    /\ [](pc = "returned" => result # None)
    /\ (pc # "idle") ~> (pc = "returned")

\* A run of six steps that returned.
C25_Witness ==
    /\ pc = "returned"
    /\ result # None
    /\ Len(trace) = MaxStepExecutions

\* The step executed right after the insight step.
AfterInsight ==
    { trace[i + 1] : i \in { k \in 1..(Len(trace) - 1) : trace[k] = "insight_agent" } }

\* C26: on the SQL path, once the insight step has executed, the step that
\* follows it is the visualization step if and only if the router set
\* visualization_needed=true; the visualization step runs right after the
\* insight step and is followed by the suggestion step; no step after the
\* router changes visualization_needed.
C26_VisualizationIffNeeded ==
    /\ [](/\ AfterInsight # {} =>
                (AfterInsight = {"visualization_agent"} <=> state.visualization_needed)
          /\ \A i \in 1..Len(trace) :
                trace[i] = "visualization_agent" =>
                   /\ state.visualization_needed
                   /\ i > 1 /\ trace[i - 1] = "insight_agent"
                   /\ i < Len(trace) => trace[i + 1] = "suggestion_agent"
          /\ pc = "visualization_agent" => state.visualization_needed
          /\ (pc = "suggestion_agent" /\ state.visualization_needed)
                => "visualization_agent" \in Range(trace))
    /\ [][ (pc \notin {"idle", "router"})
             => state'.visualization_needed = state.visualization_needed ]_vars

\* A run in which the router asked for a visualization and the visualization
\* step ran between the insight step and the suggestion step.
C26_Witness ==
    /\ pc = "returned"
    /\ state.visualization_needed
    /\ "visualization_agent" \in Range(trace)
    /\ "suggestion_agent" \in Range(trace)

\* C29 (as claimed): messages is append-only and holds exactly one entry per
\* executed step: at the end of any run, successful or failed, the number of
\* messages equals the number of steps that executed, and no step removes or
\* rewrites an earlier entry.
C29_MessagesOnePerStep ==
    /\ [](pc = "END" => Len(state.messages) = Len(trace))
    /\ [][ (pc \in Nodes /\ pc' \in Nodes \cup {"END"})
             => IsPrefix(state.messages, state'.messages) ]_vars

\* C30: in every state of every run, on both paths and after a step's failure
\* fallback, suggestions holds at most 4 entries; so does the returned record.
C30_AtMostFourSuggestions ==
    /\ pc # "idle" => Len(state.suggestions) <= MaxSuggestions
    /\ result # None => Len(result[1].suggestions) <= MaxSuggestions

\* The provider answered with more than four question lines and the step kept
\* four of them.
C30_Witness ==
    /\ pc = "returned"
    /\ "suggestion_agent" \in Range(trace)
    /\ "suggestion_agent" \notin failed
    /\ Len(result[1].suggestions) = MaxSuggestions

BothReturned(a, b) == a # b /\ th[a].pc = "returned" /\ th[b].pc = "returned"

\* C27 (as claimed): of two concurrent submit_feedback calls for the same
\* pending query_id, at most one writes to the vector store and returns True;
\* the other returns False, raises nothing and writes nothing to the store.
C27_AtMostOneApplies ==
    \A a, b \in Callers :
        (/\ BothReturned(a, b)
         /\ th[a].query_id = th[b].query_id
         /\ th[a].query_id \in 1..nextId)
        => /\ ~th[a].raised /\ ~th[b].raised
           /\ ~(th[a].ret = Some(TRUE) /\ th[b].ret = Some(TRUE))
           /\ ~(th[a].upserted /\ th[b].upserted)
           /\ th[a].ret = Some(FALSE) => ~th[a].upserted

\* The log entry of query_id does not show the feedback.
Unmarked(query_id) ==
    \E i \in 1..Len(logs) : logs[i].query_id = query_id /\ ~logs[i].feedback_received

\* C28: the read-modify-write of the feedback log is not safe against
\* concurrent submissions for different ids.  When two submit_feedback calls
\* for different pending ids have both returned True, the log shows
\* feedback_received=false for one of them only if the other call wrote the
\* file from a copy it had read before that one's write, and then it does:
\* the update is overwritten by the other call's full rewrite (C28_Witness
\* is that interleaving).
C28_LostLogUpdateOnlyByOverwrite ==
    \A a, b \in Callers :
        (/\ BothReturned(a, b)
         /\ th[a].query_id # th[b].query_id
         /\ th[a].ret = Some(TRUE) /\ th[b].ret = Some(TRUE))
        => /\ Unmarked(th[a].query_id) <=> (th[b].stale_write /\ ~th[a].stale_write)
           /\ ~(Unmarked(th[a].query_id) /\ Unmarked(th[b].query_id))

\* Both calls returned True and the log still shows feedback_received=false
\* for the query of call A.
C28_Witness ==
    /\ BothReturned("A", "B")
    /\ th["A"].query_id # th["B"].query_id
    /\ th["A"].ret = Some(TRUE) /\ th["B"].ret = Some(TRUE)
    /\ Unmarked(th["A"].query_id)

AllRetrievals == {"ddl", "documentation", "question_sql"}

\* C31: when the vector store or the embedding provider is unavailable during
\* generate_sql, retrieval degrades to an empty context: a sub-step that
\* failed contributes nothing, the completion provider is still called and a
\* query string is returned; given to sql_agent, that string by itself sets no
\* error.
C31_RetrievalSoftDegrades ==
    /\ (gs.pc \in {"related_ddl", "related_docs", "similar_questions"}
        /\ "ddl" \in gs.retrieval_failed) => gs.related_ddl = <<>>
    /\ (gs.pc \in {"related_docs", "similar_questions"}
        /\ "documentation" \in gs.retrieval_failed) => gs.related_docs = <<>>
    /\ (gs.pc = "similar_questions" /\ gs.retrieval_failed = AllRetrievals)
         => context_parts(gs.related_ddl, gs.related_docs, gs.similar_questions) = <<>>
    /\ (gs.pc = "returned" /\ gs.retrieval_failed # {})
         => /\ ~gs.raised /\ gs.ret # None
            /\ gs.completion # None => gs.ret = Some(clean_sql(gs.completion[1]))
            /\ \A df \in {None} \cup { Some(d) : d \in DataFrames } :
                   sql_agent(initial_state(gs.question), gs.ret[1], df, "").error = ""

\* On a trained store every retrieval failed and generate_sql returned the
\* query the completion provider gave.
C31_Witness ==
    /\ gs.pc = "returned"
    /\ gs.retrieval_failed = AllRetrievals
    /\ gs.completion # None
    /\ gs.ret = Some(<<"SELECT 1;">>)
    /\ Trained("ddl") > 0


\* The query ids logged on the current instance for which no submit_feedback
\* has returned True.
NotYetReviewed == { q \in instance_ids : Accepted(q) = 0 }

\* C32: between operations of one feedback-system instance, a query_id is in
\* pending if and only if log_query_execution returned it on that instance and
\* no submit_feedback for it has succeeded yet, and every record in pending has
\* feedback_received = false.
C32_PendingIsNotYetReviewed ==
    /\ DOMAIN pending_corrections = NotYetReviewed
    /\ \A q \in DOMAIN pending_corrections :
           /\ ~pending_corrections[q].feedback_received
           /\ pending_corrections[q].query_id = q

C32_Witness ==
    /\ fb.op = "submit" /\ fb.ret
    /\ fb.query_id \in instance_ids
    /\ fb.query_id \notin DOMAIN pending_corrections
    /\ Cardinality(instance_ids) = 2
    /\ Cardinality(DOMAIN pending_corrections) = 1

\* The visualization step is the one that leaves the visualization node.
VisualizationStep == pc = "visualization_agent" /\ pc' # "visualization_agent"

\* The recommendations of the message the visualization step appended.
Recommended(s) == Range(s.messages[Len(s.messages)].content)

\* C33: the visualization step makes no completion-provider call; it recommends
\* a bar chart iff data has at least one numeric and one categorical column, a
\* scatter plot iff it has at least two numeric columns, a line chart iff a
\* column name contains a temporal keyword, and the raw table iff none of the
\* three rules matched; it leaves data, sql_result, insights and suggestions
\* unchanged.
C33_VisualizationIsRuleBased ==
    [][ VisualizationStep =>
          /\ calls' = calls
          /\ state'.data = state.data
          /\ state'.sql_result = state.sql_result
          /\ state'.insights = state.insights
          /\ state'.suggestions = state.suggestions
          /\ Len(state'.messages) > Len(state.messages) =>
                LET cols == state.data[1].columns
                    numeric == { i \in 1..Len(cols) : cols[i].dtype = "number" }
                    categorical == { i \in 1..Len(cols) : cols[i].dtype = "object" }
                    bar == numeric # {} /\ categorical # {}
                    scatter == Cardinality(numeric) >= 2
                    line == \E i \in 1..Len(cols) : cols[i].name \in TemporalKeywords
                IN /\ state'.messages[Len(state'.messages)].agent = "Visualization Agent"
                   /\ "Bar chart" \in Recommended(state') <=> bar
                   /\ "Scatter plot" \in Recommended(state') <=> scatter
                   /\ "Line chart" \in Recommended(state') <=> line
                   /\ "Tabel data" \in Recommended(state') <=> ~(bar \/ scatter \/ line) ]_vars

\* The visualization step has just run on a table with one numeric column and
\* recommended the raw table.
C33_Witness ==
    /\ pc = "suggestion_agent"
    /\ trace[Len(trace)] = "visualization_agent"
    /\ state.data # None
    /\ Len(state.data[1].columns) = 1
    /\ state.messages[Len(state.messages)] = AIMessage("Visualization Agent", <<"Tabel data">>)

\* The kind of record an add call writes.
AddedKind(op) ==
    CASE op = "add_ddl" -> "ddl"
      [] op = "add_documentation" -> "documentation"
      [] op = "add_question_sql" -> "question_sql"

\* C34 (as claimed): adding a record of one kind never replaces or removes a
\* stored record of a different kind: after any add call every record of the
\* other kinds that was in the store before the call is still present with its
\* kind and payload unchanged, also when the same text is added both as ddl
\* and as documentation.
C34_AddKeepsOtherKinds ==
    [][ (tr'.op \in {"add_ddl", "add_documentation", "add_question_sql"}) =>
          \A id \in DOMAIN store :
              store[id].type # AddedKind(tr'.op)
                 => (id \in DOMAIN store' /\ store'[id] = store[id]) ]_vars

\* C35 (as claimed): every entry that get_queries_for_review returns can be
\* closed: submit_feedback with that entry's query_id succeeds, also on a
\* feedback-system instance created after the entry was written to the
\* feedback file.
C35_ReviewEntriesCanBeClosed ==
    LET review == get_queries_for_review(MaxQueries)
    IN \A i \in 1..Len(review) :
          \A in \in SubmitInputs :
              submit_feedback_result(System, review[i].query_id, in.is_correct,
                                     in.corrected_sql, None, in.embedOk, in.upsertOk).ret

\* The sql that a positive or corrected feedback pairs with the question of
\* the pending entry e.
FeedbackSql(e) == IF fb'.is_correct THEN e.generated_sql ELSE fb'.corrected_sql[1]

\* C36 (as claimed): submit_feedback returns True for positive or corrected
\* feedback only if the corresponding question_sql record is in the vector
\* store afterwards; when the store add fails (embedding failure or store
\* error) the query stays in pending with feedback_received = false, so that
\* the feedback can be submitted again.
C36_TrueOnlyIfRecordStored ==
    [][ (SubmitOnPending /\ (fb'.is_correct \/ Truthy(fb'.corrected_sql))) =>
          LET e == pending_corrections[fb'.query_id]
              stored == HasQuestionSql(store', e.question, FeedbackSql(e))
          IN /\ fb'.ret => stored
             /\ ~stored =>
                   /\ fb'.query_id \in DOMAIN pending_corrections'
                   /\ ~pending_corrections'[fb'.query_id].feedback_received ]_vars

\* No call of log_query_execution is in flight.
AllLogCallsComplete == \A t \in Callers : th[t].pc \in {"idle", "returned"}

\* The ids the feedback file lists as not yet reviewed.
UnreviewedInLog == { logs[i].query_id : i \in { j \in 1..Len(logs) : NoFeedback(logs[j]) } }

\* C37 (as claimed): under concurrent log_query_execution calls, after all
\* calls complete every returned query_id has its entry in the feedback file:
\* no append is lost to another call's rewrite of the whole file, so the file
\* and the pending index agree on the set of unreviewed ids.
C37_NoAppendLost ==
    AllLogCallsComplete =>
        /\ \A q \in instance_ids : LogEntriesOf(logs, q) # {}
        /\ UnreviewedInLog = DOMAIN pending_corrections

\* The examples the feedback file records as added to the collection: the
\* (question, sql) of an entry whose training_id or corrected_training_id is
\* a point id.
ConfirmedExamples ==
    { QuestionSqlContent(logs[i].question, logs[i].generated_sql) :
         i \in { j \in 1..Len(logs) : /\ "training_id" \in DOMAIN logs[j]
                                       /\ ReturnedId(logs[j].training_id) } }
    \cup
    { QuestionSqlContent(logs[i].question, logs[i].corrected_sql[1]) :
         i \in { j \in 1..Len(logs) : /\ "corrected_training_id" \in DOMAIN logs[j]
                                       /\ ReturnedId(logs[j].corrected_training_id) } }

ExamplesFor(question) == { c \in ConfirmedExamples : c[2] = question }

\* The grounding context of the generate_sql call in progress.
GroundingContext == context_parts(gs.related_ddl, gs.related_docs, gs.similar_questions)

\* C38: the feedback loop closes: after a positive or corrected feedback for a
\* logged question Q was accepted and stored, a later generate_sql(Q) has that
\* (question, sql) example in its grounding context whenever the store holds at
\* most 3 question_sql records and the embedding provider and the store answer.
C38_FeedbackLoopCloses ==
    (/\ gs.pc = "similar_questions"
     /\ "question_sql" \notin gs.retrieval_failed
     /\ Trained("question_sql") <= QuestionSqlLimit)
       => ExamplesFor(gs.question) \subseteq Range(GroundingContext)

\* A generate_sql call for a question whose confirmed example is one of three
\* question_sql records of the collection, and is in the context.
C38_Witness ==
    /\ gs.pc = "similar_questions"
    /\ Trained("question_sql") = QuestionSqlLimit
    /\ ExamplesFor(gs.question) # {}
    /\ ExamplesFor(gs.question) \subseteq Range(gs.similar_questions)
    /\ accepted # EmptyDict
====
